---------------------------- MODULE Spec2Model ----------------------------
(***************************************************************************)
(* A model of the modpack merger of src/app.js: the pack list, the file    *)
(* list, the conflict resolver, the compatibility validator, the           *)
(* dependency validator, the merge emitter and the orchestration of load,  *)
(* remove, reorder, edit, toggle and deep analysis.                        *)
(*                                                                         *)
(* Spec is the whole session.  SpecPass, SpecDeep, SpecEmit, SpecGate and  *)
(* SpecTrip run a part of it from drawn sessions: the priority pass, the   *)
(* deep analysis, the emitter with the handlers that change the lists it   *)
(* walks, the emitter with the handlers that decide whether export is      *)
(* enabled, and an emit followed by a load of the emitted archive.         *)
(* SpecSlug is the priority pass on files whose names share a slug, and    *)
(* SpecVersions the dependency validator on drawn versions, SpecAlias the  *)
(* validator on mod ids that are declared, provided and bundled, and       *)
(* SpecDeepLive is SpecDeep with the fetches settling in the end.          *)
(*                                                                         *)
(* JavaScript strings that the code inspects (paths, file names, versions, *)
(* mod ids) are sequences of one-character strings, so that split, slice,  *)
(* startsWith, toLowerCase and the regular expressions are computed as the *)
(* code computes them.  Pack names, pack versions and loaders are only     *)
(* ever compared for equality and are plain strings.                       *)
(***************************************************************************)
EXTENDS Integers, Sequences, FiniteSets, TLC

\* ------------------------------------------------------------------ strings

DigitChars == <<"0", "1", "2", "3", "4", "5", "6", "7", "8", "9">>

UpperChars == <<"A", "B", "C", "D", "E", "F", "G", "H", "I", "J", "K", "L", "M",
                "N", "O", "P", "Q", "R", "S", "T", "U", "V", "W", "X", "Y", "Z">>

LowerChars == <<"a", "b", "c", "d", "e", "f", "g", "h", "i", "j", "k", "l", "m",
                "n", "o", "p", "q", "r", "s", "t", "u", "v", "w", "x", "y", "z">>

DigitSet == {DigitChars[i] : i \in 1..10}

UpperSet == {UpperChars[i] : i \in 1..26}

DigitOf == [c \in DigitSet |-> (CHOOSE i \in 1..10 : DigitChars[i] = c) - 1]

LowerOf == [c \in UpperSet |-> LowerChars[CHOOSE i \in 1..26 : UpperChars[i] = c]]

IsDigit(c) == c \in DigitSet

DigitVal(c) == DigitOf[c]

\* String.prototype.toLowerCase, one character
LowerChar(c) == IF c \in UpperSet THEN LowerOf[c] ELSE c

toLowerCase(s) == [i \in 1..Len(s) |-> LowerChar(s[i])]

\* s.startsWith(p)
startsWith(s, p) == Len(p) <= Len(s) /\ SubSeq(s, 1, Len(p)) = p

\* s.endsWith(p)
endsWith(s, p) == Len(p) <= Len(s) /\ SubSeq(s, Len(s) - Len(p) + 1, Len(s)) = p

\* s.includes(p)
includes(s, p) == \E i \in 1..(Len(s) - Len(p) + 1) : SubSeq(s, i, i + Len(p) - 1) = p

\* the 1-based positions of character c in s
Positions(s, c) == {i \in 1..Len(s) : s[i] = c}

\* s.split(c)[0]: the part of s before the first c
BeforeFirst(s, c) ==
    IF Positions(s, c) = {} THEN s
    ELSE SubSeq(s, 1, (CHOOSE i \in Positions(s, c) : \A j \in Positions(s, c) : i <= j) - 1)

\* s.split(c).pop(): the part of s after the last c
AfterLast(s, c) ==
    IF Positions(s, c) = {} THEN s
    ELSE SubSeq(s, (CHOOSE i \in Positions(s, c) : \A j \in Positions(s, c) : i >= j) + 1, Len(s))

\* s.split(c), all parts
RECURSIVE Split(_, _)
Split(s, c) ==
    IF Positions(s, c) = {} THEN <<s>>
    ELSE LET i == CHOOSE k \in Positions(s, c) : \A j \in Positions(s, c) : k <= j
         IN  <<SubSeq(s, 1, i - 1)>> \o Split(SubSeq(s, i + 1, Len(s)), c)

\* s.replace(/[^0-9.]/g, '')
RECURSIVE KeepDigitsAndDots(_)
KeepDigitsAndDots(s) ==
    IF s = <<>> THEN <<>>
    ELSE (IF IsDigit(Head(s)) \/ Head(s) = "." THEN <<Head(s)>> ELSE <<>>)
         \o KeepDigitsAndDots(Tail(s))

\* parseInt(p) || 0 for p made of digits only ('' gives NaN, hence 0)
RECURSIVE ParseIntOr0(_)
ParseIntOr0(p) ==
    IF p = <<>> THEN 0
    ELSE 10 * ParseIntOr0(SubSeq(p, 1, Len(p) - 1)) + DigitVal(p[Len(p)])

\* s.trim() (the space character is the only white space of the model)
RECURSIVE trim(_)
trim(s) ==
    IF s = <<>> THEN s
    ELSE IF Head(s) = " " THEN trim(Tail(s))
    ELSE IF s[Len(s)] = " " THEN trim(SubSeq(s, 1, Len(s) - 1))
    ELSE s

\* --------------------------------------------------- Map (insertion order free)

EmptyMap == <<>>

MapHas(m, k) == k \in DOMAIN m

MapSet(m, k, v) == [x \in (DOMAIN m) \cup {k} |-> IF x = k THEN v ELSE m[x]]

\* ---------------------------------------------------------- VersionComparator

\* lines 30-31: the numeric parts of a cleaned version string
ParsedParts(cleaned) ==
    LET raw == Split(cleaned, ".")
    IN  [i \in 1..Len(raw) |-> ParseIntOr0(raw[i])]

\* line 31: parts[i] || 0 for the 1-based position i
PartAt(parts, i) == IF i <= Len(parts) THEN parts[i] ELSE 0

\* line 31: { major, minor, patch } from the numeric parts
VersionOf(parts) ==
    [major |-> PartAt(parts, 1), minor |-> PartAt(parts, 2), patch |-> PartAt(parts, 3)]

\* VersionComparator.parse
parse(versionString) ==
    VersionOf(ParsedParts(KeepDigitsAndDots(BeforeFirst(versionString, "+"))))

\* the comparison with the minor parts looked at from one side only: the
\* variant against which CompareIsTotalPreorder is tested
compareParsedOneSided(p1, p2) ==
    IF p1.major # p2.major THEN p1.major - p2.major
    ELSE IF p1.minor > p2.minor THEN p1.minor - p2.minor
    ELSE p1.patch - p2.patch

\* lines 37-39: the comparison of two parsed versions
compareParsed(p1, p2) ==
    IF p1.major # p2.major THEN p1.major - p2.major
    ELSE IF p1.minor # p2.minor THEN p1.minor - p2.minor
    ELSE p1.patch - p2.patch

\* VersionComparator.compare
compare(v1, v2) == compareParsed(parse(v1), parse(v2))

\* the decimal digits of a natural number, as a template literal prints it
RECURSIVE NatToString(_)
NatToString(n) ==
    IF n < 10 THEN <<DigitChars[n + 1]>>
    ELSE NatToString(n \div 10) \o <<DigitChars[(n % 10) + 1]>>

\* s.replace(/[x\*]/g, '0')
ZeroWildcards(s) == [i \in 1..Len(s) |-> IF s[i] \in {"x", "*"} THEN "0" ELSE s[i]]

\* lines 56-58: the test of ^pattern(|\+.*)$ on version, where pattern is the
\* range with every x and * standing for any run of characters and every
\* other character standing for itself
RECURSIVE WildcardTest(_, _)
WildcardTest(pattern, version) ==
    IF pattern = <<>> THEN version = <<>> \/ Head(version) = "+"
    ELSE IF Head(pattern) \in {"x", "*"}
    THEN \E k \in 0..Len(version) :
            WildcardTest(Tail(pattern), SubSeq(version, k + 1, Len(version)))
    ELSE /\ version # <<>>
         /\ Head(version) = Head(pattern)
         /\ WildcardTest(Tail(pattern), Tail(version))

\* the range ~target with the next major version as the upper end: the
\* variant against which TildeIsMinorInterval is tested
TildeTestNextMajor(version, target) ==
    /\ compare(version, target) >= 0
    /\ compare(version, NatToString(parse(target).major + 1) \o <<".", "0", ".", "0">>) < 0

\* lines 63-71: the range ~target
TildeTest(version, target) ==
    /\ compare(version, target) >= 0
    /\ compare(version, NatToString(parse(target).major) \o <<".">>
                        \o NatToString(parse(target).minor + 1) \o <<".", "0">>) < 0

\* lines 73-81: the range that starts with a comparison operator
ComparatorTest(version, range) ==
    IF startsWith(range, <<">", "=">>) THEN compare(version, SubSeq(range, 3, Len(range))) >= 0
    ELSE IF startsWith(range, <<">">>) THEN compare(version, SubSeq(range, 2, Len(range))) > 0
    ELSE IF startsWith(range, <<"<", "=">>) THEN compare(version, SubSeq(range, 3, Len(range))) <= 0
    ELSE compare(version, SubSeq(range, 2, Len(range))) < 0

\* lines 83-101: the interval [min,max], (min,max) and the half-open ones
IntervalTest(version, range) ==
    LET parts == Split(SubSeq(range, 2, Len(range) - 1), ",")
        min   == trim(parts[1])
        max   == IF Len(parts) >= 2 THEN trim(parts[2]) ELSE <<>>
        minOk == \/ min = <<>>
                 \/ IF Head(range) = "[" THEN compare(version, min) >= 0
                    ELSE compare(version, min) > 0
        maxOk == \/ max = <<>>
                 \/ IF range[Len(range)] = "]" THEN compare(version, max) <= 0
                    ELSE compare(version, max) < 0
    IN  minOk /\ maxOk

\* lines 54-104: satisfies for a range without white space
SimpleSatisfies(version, range) ==
    LET wild   == includes(range, <<"x">>) \/ (includes(range, <<"*">>) /\ range # <<"*">>)
        range1 == IF wild THEN ZeroWildcards(range) ELSE range
    IN  IF wild /\ Head(range) \notin {">", "=", "<"} THEN WildcardTest(range, version)
        ELSE IF startsWith(range1, <<"~">>) THEN TildeTest(version, Tail(range1))
        ELSE IF Head(range1) \in {">", "<"} THEN ComparatorTest(version, range1)
        ELSE IF Head(range1) \in {"[", "("} THEN IntervalTest(version, range1)
        ELSE compare(version, range1) = 0

\* VersionComparator.satisfies; range.split(/\s+/) gives the parts between the
\* runs of spaces, and an empty part is satisfied by line 47
satisfies(version, range) ==
    IF range = <<>> \/ range = <<"*">> \/ range = <<"a", "n", "y">> THEN TRUE
    ELSE IF includes(range, <<" ">>) /\ Head(range) \notin {"[", "("}
    THEN \A i \in 1..Len(Split(range, " ")) :
            LET part == trim(Split(range, " ")[i])
            IN  part = <<>> \/ part = <<"*">> \/ part = <<"a", "n", "y">>
                \/ SimpleSatisfies(version, part)
    ELSE SimpleSatisfies(version, range)

\* ----------------------------------------------------------- DependencyValidator

\* line 247: the ids that validate never looks up
PlatformIds ==
    {<<"m", "i", "n", "e", "c", "r", "a", "f", "t">>, <<"j", "a", "v", "a">>,
     <<"f", "a", "b", "r", "i", "c", "l", "o", "a", "d", "e", "r">>,
     <<"f", "a", "b", "r", "i", "c">>,
     <<"q", "u", "i", "l", "t", "l", "o", "a", "d", "e", "r">>,
     <<"f", "o", "r", "g", "e">>, <<"n", "e", "o", "f", "o", "r", "g", "e">>,
     <<"l", "i", "t", "e", "l", "o", "a", "d", "e", "r">>,
     <<"m", "i", "x", "i", "n", "e", "x", "t", "r", "a", "s">>,
     <<"m", "i", "x", "i", "n", "e", "x", "t", "r", "a">>,
     <<"m", "i", "x", "i", "n", "s">>,
     <<"c", "l", "o", "t", "h", "-", "c", "o", "n", "f", "i", "g">>,
     <<"c", "l", "o", "t", "h", "-", "c", "o", "n", "f", "i", "g", "2">>}

\* the aliases of a mod indexed without the test of line 232: the variant
\* against which IndexedWithVersionOfAnEntry is tested
RECURSIVE IndexProvidesAlways(_, _, _)
IndexProvidesAlways(present, m, j) ==
    IF j > Len(m.provides) THEN present
    ELSE IndexProvidesAlways(MapSet(present, m.provides[j], m.version), m, j + 1)

\* lines 231-233: the aliases of a mod that the index does not hold yet
RECURSIVE IndexProvides(_, _, _)
IndexProvides(present, m, j) ==
    IF j > Len(m.provides) THEN present
    ELSE IndexProvides(IF MapHas(present, m.provides[j]) THEN present
                       ELSE MapSet(present, m.provides[j], m.version),
                       m, j + 1)

\* lines 228-235: the mods of one registry entry
RECURSIVE IndexMods(_, _, _)
IndexMods(present, mods, j) ==
    IF j > Len(mods) THEN present
    ELSE IndexMods(IndexProvides(MapSet(present, mods[j].id, mods[j].version), mods[j], 1),
                   mods, j + 1)

\* line 236: the bundled mods of one registry entry
RECURSIVE IndexBundled(_, _, _)
IndexBundled(present, bundled, j) ==
    IF j > Len(bundled) THEN present
    ELSE IndexBundled(MapSet(present, bundled[j].id, bundled[j].version), bundled, j + 1)

\* lines 224-237: the presence index, mod id -> version, built in registry order
RECURSIVE presentMods(_, _, _)
presentMods(present, reg, i) ==
    IF i > Len(reg) THEN present
    ELSE presentMods(IndexBundled(IndexMods(present, reg[i].val.metadata.mods, 1),
                                  reg[i].val.metadata.bundled, 1),
                     reg, i + 1)

\* the issue of one dependency without the platform test of line 247: the
\* variant against which OneIssuePerDependency is tested
DependencyIssueOfAnyId(present, primaryMod, dep) ==
    IF ~MapHas(present, dep.id)
    THEN <<[type |-> "missing", modId |-> dep.id, requiredBy |-> primaryMod.id,
            requiredVersion |-> dep.range, presentVersion |-> <<>>]>>
    ELSE IF ~satisfies(present[dep.id], dep.range)
    THEN <<[type |-> "outdated", modId |-> dep.id, requiredBy |-> primaryMod.id,
            requiredVersion |-> dep.range, presentVersion |-> present[dep.id]]>>
    ELSE <<>>

\* lines 246-270: the issue, if any, of one dependency of a primary mod
DependencyIssue(present, primaryMod, dep) ==
    IF toLowerCase(dep.id) \in PlatformIds THEN <<>>
    ELSE IF ~MapHas(present, dep.id)
    THEN <<[type |-> "missing", modId |-> dep.id, requiredBy |-> primaryMod.id,
            requiredVersion |-> dep.range, presentVersion |-> <<>>]>>
    ELSE IF ~satisfies(present[dep.id], dep.range)
    THEN <<[type |-> "outdated", modId |-> dep.id, requiredBy |-> primaryMod.id,
            requiredVersion |-> dep.range, presentVersion |-> present[dep.id]]>>
    ELSE <<>>

\* lines 246-271: the issues of the dependencies of one primary mod, from the j-th on
RECURSIVE DependencyIssues(_, _, _)
DependencyIssues(present, primaryMod, j) ==
    IF j > Len(primaryMod.depends) THEN <<>>
    ELSE DependencyIssue(present, primaryMod, primaryMod.depends[j])
         \o DependencyIssues(present, primaryMod, j + 1)

\* lines 239-272: the issues of the registry entries from the i-th on
RECURSIVE ValidateFrom(_, _, _)
ValidateFrom(present, reg, i) ==
    IF i > Len(reg) THEN <<>>
    ELSE (IF Len(reg[i].val.metadata.mods) = 0 THEN <<>>
          ELSE DependencyIssues(present, reg[i].val.metadata.mods[1], 1))
         \o ValidateFrom(present, reg, i + 1)

\* DependencyValidator.validate
validate(reg) == ValidateFrom(presentMods(EmptyMap, reg, 1), reg, 1)

\* ------------------------------------------------------------ string literals

S_jar == <<".", "j", "a", "r">>

S_mods == <<"m", "o", "d", "s", "/">>

S_slash_mods == <<"/", "m", "o", "d", "s", "/">>

S_resourcepacks == <<"r", "e", "s", "o", "u", "r", "c", "e", "p", "a", "c", "k", "s", "/">>

S_shaderpacks == <<"s", "h", "a", "d", "e", "r", "p", "a", "c", "k", "s", "/">>

S_config == <<"c", "o", "n", "f", "i", "g", "/">>

S_scripts == <<"s", "c", "r", "i", "p", "t", "s", "/">>

S_unknown == <<"u", "n", "k", "n", "o", "w", "n">>

\* ------------------------------------------------------------- file records

\* a file record without metadata (metadata undefined or null)
NoMetadata == [has |-> FALSE, mods |-> <<>>, bundled |-> <<>>]

\* keptSource / conflictReason of a record that never got one (undefined)
NoSource == ""

NoReason == [kind |-> "none", arg |-> <<>>]

\* 'Exact path duplicate'
ReasonPath == [kind |-> "Exact path duplicate", arg |-> <<>>]

\* `Older version (Mod ID: ${mod.id})`
ReasonOlder(modId) == [kind |-> "Older version (Mod ID)", arg |-> modId]

\* `Possible duplicate of ${existing.fileName}`
ReasonSlug(fileName) == [kind |-> "Possible duplicate of", arg |-> fileName]

\* file.pName || pack.name
NameOf(file, pack) == IF file.pName # "" THEN file.pName ELSE pack.name

\* ----------------------------------------------------------- ConflictResolver

\* the least k >= 0 with /[-+](?:\d|v\d)/i matching name at offset k, or -1
SlugCut(name) ==
    LET hit(k) == /\ k + 2 <= Len(name)
                  /\ name[k + 1] \in {"-", "+"}
                  /\ \/ IsDigit(name[k + 2])
                     \/ /\ k + 3 <= Len(name)
                        /\ name[k + 2] \in {"v", "V"}
                        /\ IsDigit(name[k + 3])
        hits == {k \in 0..Len(name) : hit(k)}
    IN  IF hits = {} THEN -1 ELSE CHOOSE k \in hits : \A j \in hits : k <= j

\* ConflictResolver.extractModSlug
extractModSlug(filename) ==
    IF ~endsWith(toLowerCase(filename), S_jar) THEN filename
    ELSE LET name == SubSeq(filename, 1, Len(filename) - 4)
             cut  == SlugCut(name)
             stem == IF cut >= 0 THEN SubSeq(name, 1, cut) ELSE name
         IN  trim(toLowerCase(stem))

\* the first mod of file.metadata.mods, from position j on, that is older than
\* the registered version of its id (0 when there is none): lines 412-423
RECURSIVE FirstOlder(_, _, _)
FirstOlder(mods, modIdRegistry, j) ==
    IF j > Len(mods) THEN 0
    ELSE IF /\ MapHas(modIdRegistry, mods[j].id)
            /\ compare(mods[j].version, modIdRegistry[mods[j].id].version) < 0
         THEN j
         ELSE FirstOlder(mods, modIdRegistry, j + 1)

\* lines 431-436: every mod of the kept file overwrites its id's entry
RECURSIVE RegisterAll(_, _, _, _)
RegisterAll(mods, modIdRegistry, packName, j) ==
    IF j > Len(mods) THEN modIdRegistry
    ELSE RegisterAll(mods,
                     MapSet(modIdRegistry, mods[j].id,
                            [version |-> mods[j].version, packName |-> packName]),
                     packName, j + 1)

\* the three registries of one pass, and the file list being rewritten
InitialPass(files) ==
    [files |-> files, pathRegistry |-> EmptyMap, modIdRegistry |-> EmptyMap,
     slugRegistry |-> EmptyMap]

\* Decide without the exact-path check of lines 400-408: the variant against
\* which NoSharedPathAfterPass is tested
DecideWithoutPathCheck(st, i, owner, older, slug) ==
    LET file   == st.files[i]
        reset  == [file EXCEPT !.isDuplicate = FALSE, !.enabled = TRUE]
        out    == [reset EXCEPT !.enabled = FALSE, !.isDuplicate = TRUE]
        mods1  == IF file.metadata.has
                  THEN RegisterAll(file.metadata.mods, st.modIdRegistry, owner, 1)
                  ELSE st.modIdRegistry
        paths1 == MapSet(st.pathRegistry, file.path, owner)
    IN  IF older # 0
        THEN [st EXCEPT !.pathRegistry = paths1,
                        !.files[i] =
                 [out EXCEPT
                     !.keptSource =
                         st.modIdRegistry[file.metadata.mods[older].id].packName,
                     !.conflictReason = ReasonOlder(file.metadata.mods[older].id)]]
        ELSE IF file.category = "mods" /\ MapHas(st.slugRegistry, slug)
        THEN [st EXCEPT !.pathRegistry = paths1, !.modIdRegistry = mods1,
                        !.files[i] =
                 [out EXCEPT
                     !.keptSource = st.slugRegistry[slug].packName,
                     !.conflictReason = ReasonSlug(st.slugRegistry[slug].fileName)]]
        ELSE [st EXCEPT !.pathRegistry = paths1, !.modIdRegistry = mods1,
                        !.slugRegistry =
                            IF file.category = "mods"
                            THEN MapSet(st.slugRegistry, slug,
                                        [fileName |-> file.fileName, packName |-> owner])
                            ELSE st.slugRegistry,
                        !.files[i] = reset]

\* lines 400-453 for files[i], whose owner, first older mod (0 when no mod of
\* the file is older than the registered one) and slug are given
Decide(st, i, owner, older, slug) ==
    LET file   == st.files[i]
        reset  == [file EXCEPT !.isDuplicate = FALSE, !.enabled = TRUE]
        out    == [reset EXCEPT !.enabled = FALSE, !.isDuplicate = TRUE]
        mods1  == IF file.metadata.has
                  THEN RegisterAll(file.metadata.mods, st.modIdRegistry, owner, 1)
                  ELSE st.modIdRegistry
        paths1 == MapSet(st.pathRegistry, file.path, owner)
    IN  IF MapHas(st.pathRegistry, file.path)
        THEN [st EXCEPT !.files[i] =
                 [out EXCEPT !.keptSource = st.pathRegistry[file.path],
                             !.conflictReason = ReasonPath]]
        ELSE IF older # 0
        THEN [st EXCEPT !.pathRegistry = paths1,
                        !.files[i] =
                 [out EXCEPT
                     !.keptSource =
                         st.modIdRegistry[file.metadata.mods[older].id].packName,
                     !.conflictReason = ReasonOlder(file.metadata.mods[older].id)]]
        ELSE IF file.category = "mods" /\ MapHas(st.slugRegistry, slug)
        THEN [st EXCEPT !.pathRegistry = paths1, !.modIdRegistry = mods1,
                        !.files[i] =
                 [out EXCEPT
                     !.keptSource = st.slugRegistry[slug].packName,
                     !.conflictReason = ReasonSlug(st.slugRegistry[slug].fileName)]]
        ELSE [st EXCEPT !.pathRegistry = paths1, !.modIdRegistry = mods1,
                        !.slugRegistry =
                            IF file.category = "mods"
                            THEN MapSet(st.slugRegistry, slug,
                                        [fileName |-> file.fileName, packName |-> owner])
                            ELSE st.slugRegistry,
                        !.files[i] = reset]

\* the body of the inner loop of resolveByPriority for files[i] (lines 397-453)
ResolveFile(st, i, pack) ==
    Decide(st, i, NameOf(st.files[i], pack),
           IF st.files[i].metadata.has
           THEN FirstOlder(st.files[i].metadata.mods, st.modIdRegistry, 1) ELSE 0,
           extractModSlug(st.files[i].fileName))

\* the two loops of resolveByPriority: packs in order, and for each pack the
\* records of the file list whose pId is the pack's id, in list order
RECURSIVE ResolveLoop(_, _, _, _)
ResolveLoop(st, packs, p, i) ==
    IF p > Len(packs) THEN st
    ELSE IF i > Len(st.files) THEN ResolveLoop(st, packs, p + 1, 1)
    ELSE IF st.files[i].pId = packs[p].id
         THEN ResolveLoop(ResolveFile(st, i, packs[p]), packs, p, i + 1)
         ELSE ResolveLoop(st, packs, p, i + 1)

\* ConflictResolver.resolveByPriority: the file list after the pass
resolveByPriority(files, packs) == ResolveLoop(InitialPass(files), packs, 1, 1).files

\* ------------------------------------------------------ CompatibilityValidator

\* CompatibilityValidator.checkPackCompatibility: the issue list
RECURSIVE CompatLoop(_, _)
CompatLoop(packs, i) ==
    IF i > Len(packs) THEN <<>>
    ELSE (IF packs[i].ver # packs[1].ver
          THEN <<[type |-> "version_mismatch", pack1 |-> packs[1].name,
                  pack2 |-> packs[i].name]>>
          ELSE <<>>)
         \o (IF packs[i].loader # packs[1].loader
             THEN <<[type |-> "loader_mismatch", pack1 |-> packs[1].name,
                     pack2 |-> packs[i].name]>>
             ELSE <<>>)
         \o CompatLoop(packs, i + 1)

checkPackCompatibility(packs) == IF Len(packs) = 0 THEN <<>> ELSE CompatLoop(packs, 2)

\* StandardPackResolver.getCategory
getCategory(path) ==
    LET lowerPath == toLowerCase(path)
    IN  IF startsWith(lowerPath, S_mods) \/ includes(lowerPath, S_slash_mods) THEN "mods"
        ELSE IF includes(lowerPath, S_resourcepacks) THEN "resourcepacks"
        ELSE IF includes(lowerPath, S_shaderpacks) THEN "shaderpacks"
        ELSE IF includes(lowerPath, S_config) \/ includes(lowerPath, S_scripts) THEN "configs"
        ELSE "others"

\* ------------------------------------------------------------------- bounds

\* packs loaded or being loaded at the same time
MaxPacks == 2

\* pack ids generated in one session
MaxLoads == 2

\* archives selected in one file-input change event
MaxSelect == 2

\* file-input handlers running at the same time
MaxHandlers == 2

\* toggleFile and bulkSet calls in one session
MaxToggles == 1

\* ------------------------------------------------------- the archives on offer

S_overrides == <<"o", "v", "e", "r", "r", "i", "d", "e", "s", "/">>

S_minecraft == <<"m", "i", "n", "e", "c", "r", "a", "f", "t">>

S_fabric == <<"f", "a", "b", "r", "i", "c">>

S_forge == <<"f", "o", "r", "g", "e">>

S_neoforge == <<"n", "e", "o", "f", "o", "r", "g", "e">>

S_quilt == <<"q", "u", "i", "l", "t">>

S_liteloader == <<"l", "i", "t", "e", "l", "o", "a", "d", "e", "r">>

S_local == <<"l", "o", "c", "a", "l", ":">>

U1 == <<"u", "1">>

U2 == <<"u", "2">>

U3 == <<"u", "3">>

U4 == <<"u", "4">>

U5 == <<"u", "5">>

U6 == <<"u", "6">>

U7 == <<"u", "7">>

\* a ModEntry as parseFabricMod builds it from a fabric.mod.json without
\* depends, provides and jars (lines 154-160)
ModEntry(id, version) == [id |-> id, version |-> version, depends |-> <<>>, provides |-> <<>>]

\* a ModEntry with depends (in the order of Object.entries) and provides
ModWith(id, version, depends, provides) ==
    [id |-> id, version |-> version, depends |-> depends, provides |-> provides]

S_libx == <<"l", "i", "b", "x">>

S_app == <<"a", "p", "p">>

S_core == <<"c", "o", "r", "e">>

S_corelib == <<"c", "o", "r", "e", "l", "i", "b">>

S_tiny == <<"t", "i", "n", "y">>

S_ghost == <<"g", "h", "o", "s", "t">>

S_parse_error == <<"p", "a", "r", "s", "e", "_", "e", "r", "r", "o", "r">>

\* the ModMetadata that parseMetadata extracts from the jar behind a URL:
\*   u1  libx 1.1.0
\*   u3  app 1.0.0, depends on libx >=1.2.0, FabricLoader >=0.14.0, corelib [2.0,3.0)
\*   u4  core 2.0.0, provides corelib, bundles tiny 0.1.0 (which depends on ghost)
\*   u5  app 2.0.0, depends on tiny ~0.2.0
\*   u6  a fabric.mod.json that JSON.parse rejects (lines 183-186)
\*   u7  a mod whose id is the text of the url u1
\*   any other url  libx 1.2.0
JarAt(url) ==
    IF url = U1
    THEN [has |-> TRUE, mods |-> <<ModEntry(S_libx, <<"1", ".", "1", ".", "0">>)>>, bundled |-> <<>>]
    ELSE IF url = U3
    THEN [has |-> TRUE,
          mods |-> <<ModWith(S_app, <<"1", ".", "0", ".", "0">>,
                             <<[id |-> S_libx, range |-> <<">", "=", "1", ".", "2", ".", "0">>],
                               [id |-> <<"F", "a", "b", "r", "i", "c", "L", "o", "a", "d", "e", "r">>,
                                range |-> <<">", "=", "0", ".", "1", "4", ".", "0">>],
                               [id |-> S_corelib,
                                range |-> <<"[", "2", ".", "0", ",", "3", ".", "0", ")">>]>>,
                             <<>>)>>,
          bundled |-> <<>>]
    ELSE IF url = U4
    THEN [has |-> TRUE,
          mods |-> <<ModWith(S_core, <<"2", ".", "0", ".", "0">>, <<>>, <<S_corelib>>)>>,
          bundled |-> <<ModWith(S_tiny, <<"0", ".", "1", ".", "0">>,
                                <<[id |-> S_ghost, range |-> <<"*">>]>>, <<>>)>>]
    ELSE IF url = U5
    THEN [has |-> TRUE,
          mods |-> <<ModWith(S_app, <<"2", ".", "0", ".", "0">>,
                             <<[id |-> S_tiny, range |-> <<"~", "0", ".", "2", ".", "0">>]>>,
                             <<>>)>>,
          bundled |-> <<>>]
    ELSE IF url = U6
    THEN [has |-> TRUE, mods |-> <<ModEntry(S_parse_error, S_unknown)>>, bundled |-> <<>>]
    ELSE IF url = U7
    THEN [has |-> TRUE, mods |-> <<ModEntry(U1, <<"1", ".", "0", ".", "0">>)>>, bundled |-> <<>>]
    ELSE [has |-> TRUE, mods |-> <<ModEntry(S_libx, <<"1", ".", "2", ".", "0">>)>>, bundled |-> <<>>]

\* an indexed pack: one remote mod, one override
ArchiveAlpha ==
    [name |-> "alpha.mrpack", readable |-> TRUE, hasIndex |-> TRUE, indexOk |-> TRUE,
     indexName |-> "alpha",
     dependencies |-> <<[key |-> S_minecraft, value |-> "1.20.1"],
                        [key |-> <<"f", "a", "b", "r", "i", "c", "-", "l", "o", "a", "d", "e", "r">>, value |-> "0.15"]>>,
     indexFiles |-> <<[path |-> <<"m", "o", "d", "s", "/", "l", "i", "b", "x", "-", "o", "l", "d", ".", "j", "a", "r">>, downloads |-> <<U1>>]>>,
     entries |-> <<[path |-> S_overrides, dir |-> TRUE],
                   [path |-> <<"o", "v", "e", "r", "r", "i", "d", "e", "s", "/", "c", "o", "n", "f", "i", "g", "/", "a", ".", "t", "o", "m", "l">>, dir |-> FALSE]>>,
     hasManifest |-> FALSE, foundVer |-> "", foundLoader |-> ""]

\* an indexed pack: a newer libx
ArchiveBeta ==
    [name |-> "beta.mrpack", readable |-> TRUE, hasIndex |-> TRUE, indexOk |-> TRUE,
     indexName |-> "beta",
     dependencies |-> <<[key |-> S_minecraft, value |-> "1.20.1"],
                        [key |-> <<"f", "a", "b", "r", "i", "c", "-", "l", "o", "a", "d", "e", "r">>, value |-> "0.15"]>>,
     indexFiles |-> <<[path |-> <<"m", "o", "d", "s", "/", "l", "i", "b", "x", "-", "n", "e", "w", ".", "j", "a", "r">>, downloads |-> <<U2>>]>>,
     entries |-> <<>>,
     hasManifest |-> FALSE, foundVer |-> "", foundLoader |-> ""]

\* an indexed pack: the jar of alpha under another path and file name
ArchiveDelta ==
    [name |-> "delta.mrpack", readable |-> TRUE, hasIndex |-> TRUE, indexOk |-> TRUE,
     indexName |-> "delta",
     dependencies |-> <<[key |-> S_minecraft, value |-> "1.20.1"],
                        [key |-> <<"f", "a", "b", "r", "i", "c", "-", "l", "o", "a", "d", "e", "r">>, value |-> "0.15"]>>,
     indexFiles |-> <<[path |-> <<"m", "o", "d", "s", "/", "x", "l", "i", "b", ".", "j", "a", "r">>, downloads |-> <<U1>>]>>,
     entries |-> <<>>,
     hasManifest |-> FALSE, foundVer |-> "", foundLoader |-> ""]

\* a standard zip with a manifest.json that names no version and no loader,
\* and a jar at the path of alpha's remote mod
ArchiveGamma ==
    [name |-> "gamma.zip", readable |-> TRUE, hasIndex |-> FALSE, indexOk |-> FALSE,
     indexName |-> "",
     dependencies |-> <<>>,
     indexFiles |-> <<>>,
     entries |-> <<[path |-> S_mods, dir |-> TRUE],
                   [path |-> <<"m", "o", "d", "s", "/", "l", "i", "b", "x", "-", "o", "l", "d", ".", "j", "a", "r">>, dir |-> FALSE]>>,
     hasManifest |-> TRUE, foundVer |-> "", foundLoader |-> ""]

\* a file that JSZip.loadAsync rejects
ArchiveBroken ==
    [name |-> "broken.zip", readable |-> FALSE, hasIndex |-> FALSE, indexOk |-> FALSE,
     indexName |-> "",
     dependencies |-> <<>>,
     indexFiles |-> <<>>,
     entries |-> <<>>,
     hasManifest |-> FALSE, foundVer |-> "", foundLoader |-> ""]

\* a zip whose modrinth.index.json JSON.parse rejects; it has an override
ArchiveEpsilon ==
    [name |-> "epsilon.mrpack", readable |-> TRUE, hasIndex |-> TRUE, indexOk |-> FALSE,
     indexName |-> "",
     dependencies |-> <<>>,
     indexFiles |-> <<>>,
     entries |-> ArchiveAlpha.entries,
     hasManifest |-> FALSE, foundVer |-> "", foundLoader |-> ""]

Archives == <<ArchiveAlpha, ArchiveBeta, ArchiveGamma, ArchiveDelta, ArchiveBroken,
              ArchiveEpsilon>>

\* what the user may type into the prompt of editMetadata
EditValues(field) == IF field = "ver" THEN {"1.19.2", "1.20.1"} ELSE {"forge", "fabric"}

\* -------------------------------------------------------------------- state

VARIABLES
    loadedPacks,            \* let loadedPacks: the pack list, head first
    allFiles,               \* let allFiles: the file list
    deepAnalysisPerformed,  \* let deepAnalysisPerformed
    analysisInProgress,     \* let analysisInProgress: the latch
    cache,                  \* metadataExtractor.cache: url -> {metadata, blob}
    modRegistry,            \* conflictResolver.modRegistry, in insertion order
    analyses,               \* the calls of performAnalysis(true) suspended in analyzeFiles
    handlers,               \* the file-input change handlers suspended at an await
    nextId,                 \* how many pack ids have been generated
    toggles,                \* how many toggleFile / bulkSet calls were made
    exportDisabled,         \* the disabled property of exportZipBtn and exportMrpackBtn
    depIssues,              \* the dependency issues on display
    emits,                  \* the calls of mergePacks suspended at a read or a fetch
    last                    \* the handler or continuation that ran last, and how it ended

vars == <<loadedPacks, allFiles, deepAnalysisPerformed, analysisInProgress, cache,
          modRegistry, analyses, handlers, nextId, toggles, exportDisabled, depIssues,
          emits, last>>

\* ------------------------------------------------------------------ helpers

RemoveAt(seq, i) == SubSeq(seq, 1, i - 1) \o SubSeq(seq, i + 1, Len(seq))

\* seq.splice(i - 1, 0, x) for the 1-based position i
InsertAt(seq, i, x) == SubSeq(seq, 1, i - 1) \o <<x>> \o SubSeq(seq, i, Len(seq))

Min(a, b) == IF a < b THEN a ELSE b

RECURSIVE SeqFilter(_, _)
SeqFilter(seq, keep) ==
    IF seq = <<>> THEN <<>>
    ELSE (IF Head(seq) \in keep THEN <<Head(seq)>> ELSE <<>>) \o SeqFilter(Tail(seq), keep)

\* a new file record; obj tells the records of one pack apart (object identity)
NewFile(path, pId, pName, category, isStandard, downloads, obj) ==
    [path |-> path, fileName |-> AfterLast(path, "/"), pId |-> pId, pName |-> pName,
     enabled |-> TRUE, category |-> category, isStandard |-> isStandard,
     downloads |-> downloads, metadata |-> NoMetadata, isDuplicate |-> FALSE,
     keptSource |-> NoSource, conflictReason |-> NoReason, conflicts |-> <<>>,
     obj |-> obj]

\* { mods: [{ id: fileName, version: 'unknown' }], bundled: [] }
Fallback(fileName) ==
    [has |-> TRUE, mods |-> <<ModEntry(fileName, S_unknown)>>, bundled |-> <<>>]

\* ---------------------------------------------------------------- pack loader

\* lines 658-664: the loader of an indexed pack, from its dependency keys
detectedLoader(deps) ==
    LET some(lit) == \E i \in 1..Len(deps) : includes(deps[i].key, lit)
    IN  IF some(S_fabric) THEN "fabric"
        ELSE IF some(S_forge) /\ ~some(S_neoforge) THEN "forge"
        ELSE IF some(S_neoforge) THEN "neoforge"
        ELSE IF some(S_quilt) THEN "quilt"
        ELSE IF some(S_liteloader) THEN "liteloader"
        ELSE "fabric"

\* index.dependencies.minecraft ("" stands for undefined)
IndexMinecraft(deps) ==
    IF \E i \in 1..Len(deps) : deps[i].key = S_minecraft
    THEN deps[CHOOSE i \in 1..Len(deps) : deps[i].key = S_minecraft].value
    ELSE ""

\* the entries of the zip that are files under overrides/ (lines 643-644)
OverrideEntries(a) ==
    SeqFilter(a.entries,
              {e \in {a.entries[i] : i \in 1..Len(a.entries)} :
                  startsWith(e.path, S_overrides) /\ ~e.dir})

\* the entries of the zip that are not directories (lines 579-581)
FileEntries(a) ==
    SeqFilter(a.entries, {e \in {a.entries[i] : i \in 1..Len(a.entries)} : ~e.dir})

\* lines 632-656: the records of an indexed pack, index files first
IndexedPackFiles(a, pId) ==
    LET ov == OverrideEntries(a)
        n  == Len(a.indexFiles)
        relPath(e) == SubSeq(e.path, Len(S_overrides) + 1, Len(e.path))
    IN  [i \in 1..n |->
            NewFile(a.indexFiles[i].path, pId, a.indexName, "mods", FALSE,
                    a.indexFiles[i].downloads, i)]
        \o [i \in 1..Len(ov) |->
               NewFile(relPath(ov[i]), pId, a.indexName, getCategory(relPath(ov[i])),
                       TRUE, <<>>, n + i)]

\* StandardPackResolver.resolve
StandardPackFiles(a, pId) ==
    LET es == FileEntries(a)
    IN  [i \in 1..Len(es) |->
            NewFile(es[i].path, pId, a.name, getCategory(es[i].path), TRUE, <<>>, i)]

\* lines 666-673
IndexedPack(a, pId) ==
    [id |-> pId, name |-> a.indexName, ver |-> IndexMinecraft(a.dependencies),
     loader |-> detectedLoader(a.dependencies), type |-> "modrinth",
     metadata |-> a.dependencies]

\* lines 570-573 and 684-690: what detectMetadata found, else the head pack's
\* values, else the defaults
StandardPack(a, pId, packs) ==
    LET ver    == IF a.foundVer # "" THEN a.foundVer
                  ELSE IF Len(packs) > 0 THEN packs[1].ver ELSE ""
        loader == IF a.foundLoader # "" THEN a.foundLoader
                  ELSE IF Len(packs) > 0 /\ packs[1].loader # "unknown"
                       THEN packs[1].loader ELSE ""
    IN  [id |-> pId, name |-> a.name,
         ver |-> IF ver # "" THEN ver ELSE "1.20.1",
         loader |-> IF loader # "" THEN loader ELSE "fabric",
         type |-> "standard", metadata |-> <<>>]

\* the characters of a loader name, where it becomes a key (line 1091)
loaderKey(loader) ==
    IF loader = "fabric" THEN S_fabric
    ELSE IF loader = "forge" THEN S_forge
    ELSE IF loader = "neoforge" THEN S_neoforge
    ELSE IF loader = "quilt" THEN S_quilt
    ELSE IF loader = "liteloader" THEN S_liteloader
    ELSE S_unknown

NameLoaded(packs, name) == \E i \in 1..Len(packs) : packs[i].name = name

\* ------------------------------------------------------ performAnalysis(false)

\* lines 703-716: the file list a quick analysis leaves
performQuick(packs, files, inProgress) ==
    IF inProgress THEN files
    ELSE IF Len(checkPackCompatibility(packs)) = 0 THEN resolveByPriority(files, packs)
    ELSE files

\* no artifact: what a step that saves nothing hands to saveAs
NoOutput ==
    [made |-> FALSE, isZipMode |-> FALSE, files |-> <<>>, descriptors |-> <<>>,
     dependencies |-> <<>>, activeFiles |-> <<>>, packs |-> <<>>, failed |-> FALSE]

\* what the handler that ran last did: its name, the position removePack was
\* called with, whether its quick analysis got past the latch, and whether a priority
\* pass over the current lists was the last thing it did; changed tells whether
\* a pack was loaded, removed or moved since a deep analysis last started
Did(op, arg, quick, pass) ==
    [op |-> op, arg |-> arg, quick |-> quick, pass |-> pass,
     changed |-> IF op \in {"deepStarted", "deepRun"} THEN FALSE
                 ELSE IF op \in {"load", "remove", "reorder"} THEN TRUE
                 ELSE last.changed,
     out |-> NoOutput]

DidQuick(op, arg, packs, inProgress) ==
    Did(op, arg, ~inProgress, ~inProgress /\ Len(checkPackCompatibility(packs)) = 0)

\* updateUI, lines 907-911: the two export buttons
updateUI(packs) ==
    exportDisabled' = (Len(packs) = 0 \/ Len(checkPackCompatibility(packs)) > 0)

\* lines 703 and 714: performAnalysis(false) reaches updateUI only past the latch
QuickUI(packs) ==
    IF analysisInProgress THEN UNCHANGED exportDisabled ELSE updateUI(packs)

\* ------------------------------------------------------------- deep analysis

\* const batchSize = 5 (line 293)
batchSize == 5

\* Map.prototype.set on the registry: a known key keeps its place
RegSet(reg, key, val) ==
    IF \E i \in 1..Len(reg) : reg[i].key = key
    THEN [i \in 1..Len(reg) |-> IF reg[i].key = key THEN [key |-> key, val |-> val] ELSE reg[i]]
    ELSE Append(reg, [key |-> key, val |-> val])

\* the decimal digits of a pack id, as they appear in a registry key
IdString(pId) == <<"p", DigitChars[pId + 1]>>

\* line 323: the registry key of an analysed file
RegistryKey(rec) ==
    IF rec.isStandard THEN S_local \o IdString(rec.pId) \o <<":">> \o rec.path
    ELSE rec.downloads[1]

\* lines 286-291: the files to analyse, and the copies of the others
filesToAnalyze(files) ==
    SeqFilter(files, {f \in {files[i] : i \in 1..Len(files)} :
                         f.enabled /\ f.category = "mods"})

skippedFiles(files) ==
    LET sk == SeqFilter(files, {f \in {files[i] : i \in 1..Len(files)} :
                                   ~f.enabled \/ f.category # "mods"})
    IN  [i \in 1..Len(sk) |-> [sk[i] EXCEPT !.metadata = NoMetadata, !.conflicts = <<>>]]

\* Map.prototype.has on the registry
RegHas(reg, key) == \E i \in 1..Len(reg) : reg[i].key = key

\* detectConflicts (lines 335-364).  The registry it looks the mod ids up in
\* is the one analyzeFiles fills (lines 323-328): its keys are download urls
\* and local keys and its values have no version, and registerMods (lines
\* 366-377), which would key it by mod id, is called from nowhere.  A mod id
\* that is no key adds nothing to the list; for one that is a key,
\* VersionComparator.compare is handed the undefined existing.version, parse
\* throws on it (line 29) and no list is returned
detectConflicts(metadata, reg) ==
    [threw     |-> metadata.has
                   /\ \E m \in 1..Len(metadata.mods) : RegHas(reg, metadata.mods[m].id),
     conflicts |-> <<>>]

\* lines 316-317: the callback of a file whose metadata has arrived; threw
\* tells that it has rejected instead of returning the copy of the file
Analysed(f, metadata, reg) ==
    [done |-> TRUE, threw |-> detectConflicts(metadata, reg).threw,
     rec |-> [f EXCEPT !.metadata = metadata,
                       !.conflicts = detectConflicts(metadata, reg).conflicts]]

\* line 312: the callback of a file waits for its fetch
Fetching(f) == [done |-> FALSE, threw |-> FALSE, rec |-> f]

\* the whole rest of the list dispatched at once, without the slice of line 298:
\* the variant against which BatchesOfFive is tested
DispatchAll(toAnalyze, i, theCache, reg) ==
    [j \in 1..(Len(toAnalyze) - i) |->
        IF toAnalyze[i + j].isStandard
        THEN Analysed(toAnalyze[i + j], Fallback(toAnalyze[i + j].fileName), reg)
        ELSE Fetching(toAnalyze[i + j])]

\* lines 297-318, up to the first await that really suspends: a local file gets
\* the fallback at once (parseMetadata is handed a zip entry, on which zip.file
\* is not a function, and catches the TypeError), a cached url gets the cached
\* metadata at once, any other url is fetched
Dispatch(toAnalyze, i, theCache, reg) ==
    [j \in 1..Min(batchSize, Len(toAnalyze) - i) |->
        LET f == toAnalyze[i + j]
        IN  IF f.isStandard
            THEN Analysed(f, Fallback(f.fileName), reg)
            ELSE IF MapHas(theCache, f.downloads[1])
            THEN Analysed(f, theCache[f.downloads[1]].metadata, reg)
            ELSE Fetching(f)]

\* lines 321-329: the results of a batch, consumed in submission order
RECURSIVE Consume(_, _, _)
Consume(slots, reg, j) ==
    IF j > Len(slots) THEN reg
    ELSE Consume(slots,
                 RegSet(reg, RegistryKey(slots[j].rec),
                        [metadata |-> slots[j].rec.metadata,
                         fileName |-> slots[j].rec.fileName,
                         packName |-> slots[j].rec.pName]),
                 j + 1)

\* the loop of analyzeFiles from a batch whose slots are given, run until a
\* callback has rejected (threw: Promise.all of line 302 rejects with it and
\* analyzeFiles with Promise.all, whatever fetches are still outstanding),
\* until a fetch is outstanding (done = FALSE) or until the list is exhausted
\* (done = TRUE)
RECURSIVE RunBatches(_, _, _)
RunBatches(act, reg, theCache) ==
    IF \E j \in 1..Len(act.slots) : act.slots[j].threw
    THEN [done |-> TRUE, threw |-> TRUE, act |-> act, reg |-> reg]
    ELSE IF \E j \in 1..Len(act.slots) : ~act.slots[j].done
    THEN [done |-> FALSE, threw |-> FALSE, act |-> act, reg |-> reg]
    ELSE LET enriched == act.enriched
                         \o [j \in 1..Len(act.slots) |-> act.slots[j].rec]
             reg1     == Consume(act.slots, reg, 1)
             i1       == act.i + batchSize
         IN  IF i1 >= Len(act.toAnalyze)
             THEN [done |-> TRUE, threw |-> FALSE,
                   act |-> [act EXCEPT !.enriched = enriched, !.i = i1, !.slots = <<>>],
                   reg |-> reg1]
             ELSE RunBatches([act EXCEPT !.enriched = enriched, !.i = i1,
                                         !.slots = Dispatch(act.toAnalyze, i1, theCache, reg1)],
                             reg1, theCache)

\* analyzeFiles from its first line to its first suspension; dead marks an
\* activation that has rejected and whose outstanding fetches nobody awaits
analyzeFiles(files, theCache) ==
    LET todo == filesToAnalyze(files)
        act0 == [toAnalyze |-> todo, enriched |-> skippedFiles(files), i |-> 0,
                 slots |-> Dispatch(todo, 0, theCache, <<>>), dead |-> FALSE]
    IN  IF Len(todo) = 0
        THEN [done |-> TRUE, threw |-> FALSE, act |-> act0, reg |-> <<>>]
        ELSE RunBatches(act0, <<>>, theCache)

\* a write to the object of the file list with this identity is seen through
\* the references that a suspended analysis holds (filesToAnalyze, batch)
SameObject(f, g) == f.pId = g.pId /\ f.obj = g.obj

Mirror(act, f) ==
    IF act.dead THEN act
    ELSE
    [act EXCEPT
        !.toAnalyze = [k \in 1..Len(act.toAnalyze) |->
                          IF SameObject(act.toAnalyze[k], f)
                          THEN [act.toAnalyze[k] EXCEPT !.enabled = f.enabled]
                          ELSE act.toAnalyze[k]],
        !.slots = [j \in 1..Len(act.slots) |->
                      IF ~act.slots[j].done /\ SameObject(act.slots[j].rec, f)
                      THEN [act.slots[j] EXCEPT !.rec.enabled = f.enabled]
                      ELSE act.slots[j]]]

RECURSIVE MirrorAll(_, _, _)
MirrorAll(act, files, k) ==
    IF k > Len(files) THEN act ELSE MirrorAll(Mirror(act, files[k]), files, k + 1)

\* -------------------------------------------------------------------- Init

Init ==
    /\ loadedPacks = <<>>
    /\ allFiles = <<>>
    /\ deepAnalysisPerformed = FALSE
    /\ analysisInProgress = FALSE
    /\ cache = EmptyMap
    /\ modRegistry = <<>>
    /\ analyses = <<>>
    /\ handlers = <<>>
    /\ nextId = 0
    /\ toggles = 0
    /\ exportDisabled \in BOOLEAN
    /\ depIssues = <<>>
    /\ emits = <<>>
    /\ last = [op |-> "init", arg |-> 0, quick |-> FALSE, pass |-> FALSE,
               changed |-> FALSE, out |-> NoOutput]

\* ------------------------------------------------ the file-input change handler

\* the archives that the suspended handlers have still to deal with
RECURSIVE Queued(_)
Queued(hs) == IF hs = <<>> THEN 0 ELSE Len(Head(hs).queue) + Queued(Tail(hs))

\* those of them that have not been given a pack id yet
RECURSIVE Unopened(_)
Unopened(hs) ==
    IF hs = <<>> THEN 0
    ELSE Len(Head(hs).queue) - (IF Head(hs).pc = "open" THEN 0 ELSE 1)
         + Unopened(Tail(hs))

\* the sequences of at most n archives the user may select at once
RECURSIVE Selections(_)
Selections(n) ==
    IF n = 0 THEN {<<>>}
    ELSE Selections(n - 1)
         \cup {Append(q, a) : q \in Selections(n - 1), a \in 1..Len(Archives)}

\* lines 620-623 and 676-682: what the handler does once JSZip.loadAsync has
\* settled for archive a: it waits for the index or for detectMetadata, or it
\* is done with the archive
AfterOpen(a, pId) ==
    IF ~a.readable
    THEN [wait |-> "", packs |-> loadedPacks, files |-> allFiles, outcome |-> "loadFailed"]
    ELSE IF a.hasIndex
    THEN [wait |-> "index", packs |-> loadedPacks, files |-> allFiles, outcome |-> ""]
    ELSE IF NameLoaded(loadedPacks, a.name)
    THEN [wait |-> "", packs |-> loadedPacks, files |-> allFiles, outcome |-> "loadSkipped"]
    ELSE IF a.hasManifest
    THEN [wait |-> "detect", packs |-> loadedPacks, files |-> allFiles, outcome |-> ""]
    ELSE [wait |-> "", packs |-> Append(loadedPacks, StandardPack(a, pId, loadedPacks)),
          files |-> allFiles \o StandardPackFiles(a, pId), outcome |-> "load"]

\* lines 626-675 without the throw of JSON.parse: the pack is added whatever
\* the index holds
AfterIndexIgnoringError(a, pId) ==
    [wait |-> "", packs |-> Append(loadedPacks, IndexedPack(a, pId)),
     files |-> allFiles \o IndexedPackFiles(a, pId), outcome |-> "loadFailed"]

\* lines 626-675: the index has been read
AfterIndex(a, pId) ==
    IF ~a.indexOk
    THEN [wait |-> "", packs |-> loadedPacks, files |-> allFiles, outcome |-> "loadFailed"]
    ELSE IF NameLoaded(loadedPacks, a.indexName)
    THEN [wait |-> "", packs |-> loadedPacks, files |-> allFiles, outcome |-> "loadSkipped"]
    ELSE [wait |-> "", packs |-> Append(loadedPacks, IndexedPack(a, pId)),
          files |-> allFiles \o IndexedPackFiles(a, pId), outcome |-> "load"]

\* lines 682-691: detectMetadata has returned
AfterDetect(a, pId) ==
    [wait |-> "", packs |-> Append(loadedPacks, StandardPack(a, pId, loadedPacks)),
     files |-> allFiles \o StandardPackFiles(a, pId), outcome |-> "load"]

\* the step of handler h of hs from the await it is suspended at
LoadStep(hs, h) ==
    IF hs[h].pc = "open" THEN AfterOpen(Archives[Head(hs[h].queue)], nextId + 1)
    ELSE IF hs[h].pc = "index" THEN AfterIndex(Archives[Head(hs[h].queue)], hs[h].pId)
    ELSE AfterDetect(Archives[Head(hs[h].queue)], hs[h].pId)

\* the handler h of hs runs from its await to the next one: it waits again
\* (step.wait), or goes to the next archive (line 618), or ends with updateUI
\* and performAnalysis(false) (lines 698-699)
LoadRun(hs, h, step) ==
    /\ IF hs[h].pc = "open" /\ Archives[Head(hs[h].queue)].readable
       THEN nextId' = nextId + 1 /\ deepAnalysisPerformed' = FALSE
       ELSE UNCHANGED <<nextId, deepAnalysisPerformed>>
    /\ loadedPacks' = step.packs
    /\ IF step.wait # ""
       THEN /\ handlers' = [hs EXCEPT ![h].pc = step.wait, ![h].pId = nextId + 1]
            /\ allFiles' = step.files
            /\ last' = Did("opened", 0, FALSE, FALSE)
            /\ UNCHANGED exportDisabled
       ELSE IF Tail(hs[h].queue) # <<>>
       THEN /\ handlers' = [hs EXCEPT ![h] = [queue |-> Tail(hs[h].queue),
                                               pc |-> "open", pId |-> 0]]
            /\ allFiles' = step.files
            /\ last' = Did(IF step.outcome = "loadFailed" THEN "nextAfterFailure" ELSE "next",
                           0, FALSE, FALSE)
            /\ UNCHANGED exportDisabled
       ELSE /\ handlers' = RemoveAt(hs, h)
            /\ allFiles' = performQuick(step.packs, step.files, analysisInProgress)
            /\ last' = DidQuick(step.outcome, 0, step.packs, analysisInProgress)
            /\ updateUI(step.packs)
    /\ UNCHANGED <<analysisInProgress, cache, modRegistry, analyses, toggles, depIssues,
                   emits>>

\* lines 616-623: a change event with the selected archives q, taken together
\* with the settling of JSZip.loadAsync for the first of them (the handler has
\* touched nothing before that)
FileInputChange(q) ==
    /\ Len(q) > 0
    /\ Len(handlers) < MaxHandlers
    /\ Len(loadedPacks) + Queued(handlers) + Len(q) <= MaxPacks
    /\ nextId + Unopened(handlers) + Len(q) <= MaxLoads
    /\ LoadRun(Append(handlers, [queue |-> q, pc |-> "open", pId |-> 0]),
               Len(handlers) + 1,
               LoadStep(Append(handlers, [queue |-> q, pc |-> "open", pId |-> 0]),
                        Len(handlers) + 1))

\* the await at which handler h is suspended settles
LoadResumed(h) ==
    /\ h \in 1..Len(handlers)
    /\ LoadRun(handlers, h, LoadStep(handlers, h))

\* ------------------------------------------------------------ the pack list

\* removePack filtering the file list by the position idx in place of the id
\* of the pack at idx: the variant against which RemovePackFrame is tested
removePackByPosition(idx) ==
    /\ idx \in 1..Len(loadedPacks)
    /\ LET files1 == SeqFilter(allFiles,
                               {m \in {allFiles[i] : i \in 1..Len(allFiles)} : m.pId # idx})
           packs1 == RemoveAt(loadedPacks, idx)
       IN  /\ loadedPacks' = packs1
           /\ deepAnalysisPerformed' = FALSE
           /\ allFiles' = performQuick(packs1, files1, analysisInProgress)
           /\ last' = DidQuick("remove", idx, packs1, analysisInProgress)
           /\ QuickUI(packs1)
    /\ UNCHANGED <<analysisInProgress, cache, modRegistry, analyses, handlers, nextId,
                   toggles, depIssues, emits>>

\* removePack (lines 1155-1161)
removePack(idx) ==
    /\ idx \in 1..Len(loadedPacks)
    /\ LET id     == loadedPacks[idx].id
           files1 == SeqFilter(allFiles,
                               {m \in {allFiles[i] : i \in 1..Len(allFiles)} : m.pId # id})
           packs1 == RemoveAt(loadedPacks, idx)
       IN  /\ loadedPacks' = packs1
           /\ deepAnalysisPerformed' = FALSE
           /\ allFiles' = performQuick(packs1, files1, analysisInProgress)
           /\ last' = DidQuick("remove", idx, packs1, analysisInProgress)
           /\ QuickUI(packs1)
    /\ UNCHANGED <<analysisInProgress, cache, modRegistry, analyses, handlers, nextId,
                   toggles, depIssues, emits>>

\* movePriority (lines 1008-1016), for a move that stays inside the list
movePriority(idx, direction) ==
    /\ idx \in 1..Len(loadedPacks)
    /\ idx + direction \in 1..Len(loadedPacks)
    /\ LET packs1 == InsertAt(RemoveAt(loadedPacks, idx), idx + direction,
                              loadedPacks[idx])
       IN  /\ loadedPacks' = packs1
           /\ deepAnalysisPerformed' = FALSE
           /\ allFiles' = performQuick(packs1, allFiles, analysisInProgress)
           /\ last' = DidQuick("reorder", 0, packs1, analysisInProgress)
           /\ QuickUI(packs1)
    /\ UNCHANGED <<analysisInProgress, cache, modRegistry, analyses, handlers, nextId,
                   toggles, depIssues, emits>>

\* editMetadata (lines 1173-1178), offered for standard packs (lines 894-899),
\* with a non-empty answer to the prompt
editMetadata(idx, field, newVal) ==
    /\ idx \in 1..Len(loadedPacks)
    /\ loadedPacks[idx].type = "standard"
    /\ LET packs1 == IF field = "ver"
                     THEN [loadedPacks EXCEPT ![idx].ver = newVal]
                     ELSE [loadedPacks EXCEPT ![idx].loader = newVal]
       IN  /\ loadedPacks' = packs1
           /\ allFiles' = performQuick(packs1, allFiles, analysisInProgress)
           /\ last' = DidQuick("edit", 0, packs1, analysisInProgress)
           /\ QuickUI(packs1)
    /\ UNCHANGED <<deepAnalysisPerformed, analysisInProgress, cache, modRegistry,
                   analyses, handlers, nextId, toggles, depIssues, emits>>

\* ------------------------------------------------------------ the file list

\* toggleFile (lines 1002-1006): the first record with this path and pack id
toggleFile(k) ==
    /\ toggles < MaxToggles
    /\ k \in 1..Len(allFiles)
    /\ \A j \in 1..(k - 1) :
          ~(allFiles[j].path = allFiles[k].path /\ allFiles[j].pId = allFiles[k].pId)
    /\ allFiles' = [allFiles EXCEPT ![k].enabled = ~allFiles[k].enabled]
    /\ analyses' = [a \in 1..Len(analyses) |-> MirrorAll(analyses[a], allFiles', 1)]
    /\ toggles' = toggles + 1
    /\ last' = Did("toggle", 0, FALSE, FALSE)
    /\ UNCHANGED <<loadedPacks, deepAnalysisPerformed, analysisInProgress, cache,
                   modRegistry, handlers, nextId, exportDisabled, depIssues, emits>>

\* bulkSet (lines 1168-1171) with the tab that is open
bulkSet(currentTab, val) ==
    /\ toggles < MaxToggles
    /\ \E k \in 1..Len(allFiles) : allFiles[k].category = currentTab
    /\ allFiles' = [k \in 1..Len(allFiles) |->
                       IF allFiles[k].category = currentTab
                       THEN [allFiles[k] EXCEPT !.enabled = val] ELSE allFiles[k]]
    /\ analyses' = [a \in 1..Len(analyses) |-> MirrorAll(analyses[a], allFiles', 1)]
    /\ toggles' = toggles + 1
    /\ last' = Did("bulkSet", 0, FALSE, FALSE)
    /\ UNCHANGED <<loadedPacks, deepAnalysisPerformed, analysisInProgress, cache,
                   modRegistry, handlers, nextId, exportDisabled, depIssues, emits>>

\* ------------------------------------------------------- performAnalysis(true)

\* lines 741-755 once analyzeFiles has returned the enriched list; op tells a
\* run that never suspended ("deepRun") from one that ends after a fetch
FinishAnalysis(a, act, reg, op) ==
    /\ allFiles' = resolveByPriority(act.enriched, loadedPacks)
    /\ modRegistry' = reg
    /\ deepAnalysisPerformed' = TRUE
    /\ analysisInProgress' = FALSE
    /\ analyses' = RemoveAt(analyses, a)
    /\ depIssues' = validate(reg)
    /\ updateUI(loadedPacks)
    /\ last' = Did(op, 0, FALSE, TRUE)

\* activations that have rejected and whose fetches are still outstanding, at
\* the time a further analysis starts
MaxUnawaited == 1

\* the activations with the given value of dead
Activations(dead) == {a \in 1..Len(analyses) : analyses[a].dead = dead}

\* the fetches of an activation that are still outstanding
Outstanding(act) == {j \in 1..Len(act.slots) : ~act.slots[j].done}

\* the catch of line 751 without the statement of line 754: the variant
\* against which LatchEventuallyCleared is tested
FailAnalysisKeepingLatch(a, act, reg, files, issues) ==
    /\ allFiles' = files
    /\ modRegistry' = reg
    /\ analyses' = IF Outstanding(act) = {} THEN RemoveAt(analyses, a)
                   ELSE IF a > Len(analyses)
                   THEN Append(analyses, [act EXCEPT !.dead = TRUE])
                   ELSE [analyses EXCEPT ![a] = [act EXCEPT !.dead = TRUE]]
    /\ depIssues' = issues
    /\ updateUI(loadedPacks)
    /\ last' = Did("deepFailed", 0, FALSE, FALSE)
    /\ UNCHANGED <<deepAnalysisPerformed, analysisInProgress>>

\* lines 751-755 after analyzeFiles has rejected: the file list is the one the
\* analysis started from, the registry holds what the finished batches put in,
\* and the fetches still outstanding go on with nobody awaiting them
FailAnalysis(a, act, reg, files, issues) ==
    /\ allFiles' = files
    /\ modRegistry' = reg
    /\ analysisInProgress' = FALSE
    /\ analyses' = IF Outstanding(act) = {} THEN RemoveAt(analyses, a)
                   ELSE IF a > Len(analyses)
                   THEN Append(analyses, [act EXCEPT !.dead = TRUE])
                   ELSE [analyses EXCEPT ![a] = [act EXCEPT !.dead = TRUE]]
    /\ depIssues' = issues
    /\ updateUI(loadedPacks)
    /\ last' = Did("deepFailed", 0, FALSE, FALSE)
    /\ UNCHANGED deepAnalysisPerformed

\* lines 721-739: the priority pass has produced files1 and the user has not
\* declined; run is analyzeFiles up to its first suspension
StartAnalysis(files1, run) ==
    /\ Cardinality(Activations(TRUE)) <= MaxUnawaited
    /\ IF run.threw
       THEN FailAnalysis(Len(analyses) + 1, run.act, run.reg, files1, <<>>)
       ELSE IF run.done
       THEN FinishAnalysis(Len(analyses) + 1, run.act, run.reg, "deepRun")
       ELSE /\ allFiles' = files1
            /\ modRegistry' = run.reg
            /\ analysisInProgress' = TRUE
            /\ analyses' = Append(analyses, run.act)
            /\ depIssues' = <<>>
            /\ last' = Did("deepStarted", 0, FALSE, FALSE)
            /\ UNCHANGED <<deepAnalysisPerformed, exportDisabled>>
    /\ UNCHANGED <<loadedPacks, cache, handlers, nextId, toggles, emits>>

\* lines 718-739: the priority pass has produced files1; confirmed is the
\* user's answer to the confirm dialog
ConfirmAnalysis(files1, confirmed) ==
    IF /\ ~confirmed
       /\ \E k \in 1..Len(files1) : files1[k].enabled /\ Len(files1[k].downloads) > 0
    THEN /\ allFiles' = files1
         /\ last' = Did("deepDeclined", 0, FALSE, TRUE)
         /\ UNCHANGED <<loadedPacks, deepAnalysisPerformed, analysisInProgress, cache,
                        modRegistry, analyses, handlers, nextId, toggles, exportDisabled,
                        depIssues, emits>>
    ELSE StartAnalysis(files1, analyzeFiles(files1, cache))

\* performAnalysis(true) without the latch test of line 703: the variant against
\* which OneDeepAnalysis is tested
RequestDeepAnalysisWithoutLatch(confirmed) ==
    IF Len(checkPackCompatibility(loadedPacks)) > 0
    THEN /\ last' = Did("deepRefused", 0, FALSE, FALSE)
         /\ UNCHANGED <<loadedPacks, allFiles, deepAnalysisPerformed,
                        analysisInProgress, cache, modRegistry, analyses, handlers,
                        nextId, toggles, exportDisabled, depIssues, emits>>
    ELSE ConfirmAnalysis(resolveByPriority(allFiles, loadedPacks), confirmed)

\* performAnalysis(true) without the compatibility test of lines 718-722: the
\* variant against which RefusedDeepAnalysis is tested
RequestDeepAnalysisWithoutCompat(confirmed) ==
    IF analysisInProgress
    THEN /\ last' = Did("deepBlocked", 0, FALSE, FALSE)
         /\ UNCHANGED <<loadedPacks, allFiles, deepAnalysisPerformed,
                        analysisInProgress, cache, modRegistry, analyses, handlers,
                        nextId, toggles, exportDisabled, depIssues, emits>>
    ELSE ConfirmAnalysis(resolveByPriority(allFiles, loadedPacks), confirmed)

\* performAnalysis(true) (lines 702-756) up to its first suspension.  The call
\* comes from a control of the page, outside this file, so it is taken to be
\* possible in every state; the function's own tests decide what it does
RequestDeepAnalysis(confirmed) ==
    IF analysisInProgress
    THEN /\ last' = Did("deepBlocked", 0, FALSE, FALSE)
         /\ UNCHANGED <<loadedPacks, allFiles, deepAnalysisPerformed,
                        analysisInProgress, cache, modRegistry, analyses, handlers,
                        nextId, toggles, exportDisabled, depIssues, emits>>
    ELSE IF Len(checkPackCompatibility(loadedPacks)) > 0
    THEN /\ last' = Did("deepRefused", 0, FALSE, FALSE)
         /\ UNCHANGED <<loadedPacks, allFiles, deepAnalysisPerformed,
                        analysisInProgress, cache, modRegistry, analyses, handlers,
                        nextId, toggles, exportDisabled, depIssues, emits>>
    ELSE ConfirmAnalysis(resolveByPriority(allFiles, loadedPacks), confirmed)

\* lines 316-329 and on: analyzeFiles of analysis a has run from the settled
\* fetch to its next suspension or to its end
ResumeAnalysis(a, run) ==
    IF run.threw
    THEN FailAnalysis(a, run.act, run.reg, allFiles, depIssues)
    ELSE IF run.done
    THEN FinishAnalysis(a, run.act, run.reg, "deepDone")
    ELSE /\ analyses' = [analyses EXCEPT ![a] = run.act]
         /\ modRegistry' = run.reg
         /\ last' = Did("fetched", 0, FALSE, FALSE)
         /\ UNCHANGED <<allFiles, deepAnalysisPerformed, analysisInProgress,
                        exportDisabled, depIssues>>

\* the metadata that extract() returns for url: that of the jar, or the
\* fallback of the file when the fetch or the parse fails (lines 118-132)
Extracted(f, ok) == IF ok THEN JarAt(f.downloads[1]) ELSE Fallback(f.fileName)

\* lines 125 and 130: what extract() stores once the fetch of slot j has settled
CacheAfter(theCache, act, j, ok) ==
    MapSet(theCache, act.slots[j].rec.downloads[1],
           [metadata |-> Extracted(act.slots[j].rec, ok), blob |-> ok])

\* lines 315-317: the callback of slot j goes on with the metadata
SettleSlot(act, j, ok, reg) ==
    [act EXCEPT !.slots[j] = Analysed(act.slots[j].rec, Extracted(act.slots[j].rec, ok), reg)]

\* a fetch of an activation that has rejected has settled: extract() stores
\* its result, and what the callback returns is dropped
UnawaitedFetchSettled(a, j) ==
    /\ analyses' = IF Outstanding(analyses[a]) = {j} THEN RemoveAt(analyses, a)
                   ELSE [analyses EXCEPT ![a].slots[j].done = TRUE]
    /\ last' = Did("fetchedUnawaited", 0, FALSE, FALSE)
    /\ UNCHANGED <<allFiles, modRegistry, deepAnalysisPerformed, analysisInProgress,
                   exportDisabled, depIssues>>

\* lines 118-132, then 316-329 and on: the fetch of slot j of analysis a has
\* settled, with a jar that parses (ok) or with an error
FetchSettled(a, j, ok) ==
    /\ a \in 1..Len(analyses)
    /\ j \in 1..Len(analyses[a].slots)
    /\ ~analyses[a].slots[j].done
    /\ cache' = CacheAfter(cache, analyses[a], j, ok)
    /\ IF analyses[a].dead
       THEN UnawaitedFetchSettled(a, j)
       ELSE ResumeAnalysis(a, RunBatches(SettleSlot(analyses[a], j, ok, modRegistry),
                                         modRegistry, cache'))
    /\ UNCHANGED <<loadedPacks, handlers, nextId, toggles, emits>>

\* --------------------------------------------------------------------- Next

Next ==
    \/ \E q \in Selections(MaxSelect) : FileInputChange(q)
    \/ \E h \in 1..MaxHandlers : LoadResumed(h)
    \/ \E idx \in 1..MaxPacks : removePack(idx)
    \/ \E idx \in 1..MaxPacks, direction \in {-1, 1} : movePriority(idx, direction)
    \/ \E idx \in 1..MaxPacks, field \in {"ver", "loader"} :
          \E newVal \in EditValues(field) : editMetadata(idx, field, newVal)
    \/ \E k \in 1..Len(allFiles) : toggleFile(k)
    \/ \E tab \in {"mods", "configs"}, val \in BOOLEAN : bulkSet(tab, val)
    \/ \E confirmed \in BOOLEAN : RequestDeepAnalysis(confirmed)
    \/ \E a \in 1..Len(analyses), j \in 1..batchSize, ok \in BOOLEAN : FetchSettled(a, j, ok)

Spec == Init /\ [][Next]_vars

\* ------------------------------------------------------------------ mergePacks

\* calls of mergePacks suspended at the same time
MaxEmits == 1

S_index == <<"m", "o", "d", "r", "i", "n", "t", "h", ".", "i", "n", "d", "e", "x", ".",
             "j", "s", "o", "n">>

S_latest == "latest"

\* f._original: the descriptor of a remote file, as the index of its pack gave it
Original(f) == [path |-> f.path, downloads |-> f.downloads]

\* the bytes of the zip entry of a local file
EntryBytes(f) == [from |-> "entry", pId |-> f.pId, path |-> f.path, url |-> <<>>]

\* the bytes behind the first download URL of a remote file
UrlBytes(f) == [from |-> "url", pId |-> 0, path |-> <<>>, url |-> f.downloads[1]]

\* the encoded descriptor (lines 1099-1108)
IndexBytes == [from |-> "index", pId |-> 0, path |-> <<>>, url |-> <<>>]

\* lines 1052-1069: mergePacks awaits the bytes of f in either mode but for a
\* remote file in index-descriptor mode
ReadsBytesInEveryMode(isZipMode, f) == TRUE

ReadsBytes(isZipMode, f) == isZipMode \/ f.isStandard

\* lines 1054-1062 and 1065: what the await is for
ReadKind(f, theCache) ==
    IF f.isStandard THEN "entry"
    ELSE IF MapHas(theCache, f.downloads[1]) /\ theCache[f.downloads[1]].blob THEN "blob"
    ELSE "fetch"

\* lines 1071-1075: the entry handed to the worker once the bytes are there
WorkerFile(isZipMode, f) ==
    [path |-> IF isZipMode THEN f.path ELSE S_overrides \o f.path,
     data |-> IF f.isStandard THEN EntryBytes(f) ELSE UrlBytes(f)]

\* line 1026 without the filter: every record of the file list
EveryFile(files) == files

\* line 1026: allFiles.filter(f => f.enabled)
activeFiles(files) ==
    SeqFilter(files, {f \in {files[i] : i \in 1..Len(files)} : f.enabled})

\* line 1045: activeFiles.filter(f => f.pId === pack.id)
packFilesOf(active, pack) ==
    SeqFilter(active, {f \in {active[i] : i \in 1..Len(active)} : f.pId = pack.id})

\* lines 1044-1083: the two loops from the point the call e has reached, run
\* until a read is awaited (done = FALSE) or the pack list is exhausted.  e.p is
\* the position the iterator of loadedPacks has reached in the array packs, as
\* the array is when the iterator is advanced
RECURSIVE Collect(_, _, _)
Collect(e, packs, theCache) ==
    IF e.packFiles = <<>>
    THEN IF e.p + 1 > Len(packs) THEN [done |-> TRUE, e |-> e]
         ELSE Collect([e EXCEPT !.p = e.p + 1,
                                !.packFiles = packFilesOf(e.activeFiles, packs[e.p + 1])],
                      packs, theCache)
    ELSE IF Head(e.packFiles).path \in e.seen
    THEN Collect([e EXCEPT !.packFiles = Tail(e.packFiles)], packs, theCache)
    ELSE IF ReadsBytes(e.isZipMode, Head(e.packFiles))
    THEN [done |-> FALSE, e |-> [e EXCEPT !.wait = ReadKind(Head(e.packFiles), theCache)]]
    ELSE Collect([e EXCEPT !.finalFiles = Append(e.finalFiles, Original(Head(e.packFiles))),
                           !.seen = e.seen \cup {Head(e.packFiles).path},
                           !.packFiles = Tail(e.packFiles)],
                 packs, theCache)

\* lines 1071-1080: the awaited read of the call e has settled, with the bytes or
\* with an error that the inner catch logs
AfterRead(e, ok) ==
    IF ok
    THEN [e EXCEPT !.workerFiles = Append(e.workerFiles,
                                          WorkerFile(e.isZipMode, Head(e.packFiles))),
                   !.seen = e.seen \cup {Head(e.packFiles).path},
                   !.packFiles = Tail(e.packFiles), !.wait = ""]
    ELSE [e EXCEPT !.failed = TRUE, !.packFiles = Tail(e.packFiles), !.wait = ""]

\* lines 1085-1093: the dependencies of the descriptor, from the head pack
firstPackDeps(packs) ==
    IF Len(packs) = 0
    THEN <<[key |-> S_minecraft, value |-> "1.20.1"], [key |-> S_fabric, value |-> S_latest]>>
    ELSE IF packs[1].type = "modrinth" THEN packs[1].metadata
    ELSE <<[key |-> S_minecraft, value |-> packs[1].ver],
           [key |-> loaderKey(packs[1].loader), value |-> S_latest]>>

\* lines 1098-1141: the files handed to the worker, which writes them to one zip
\* that saveAs receives; in index-descriptor mode the descriptor is the last
\* of them.  The record keeps what the call started from and whether a read failed
Artifact(e, packs) ==
    [made |-> TRUE, isZipMode |-> e.isZipMode,
     files |-> IF e.isZipMode THEN e.workerFiles
               ELSE Append(e.workerFiles, [path |-> S_index, data |-> IndexBytes]),
     descriptors |-> IF e.isZipMode THEN <<>> ELSE e.finalFiles,
     dependencies |-> IF e.isZipMode THEN <<>> ELSE firstPackDeps(packs),
     activeFiles |-> e.activeFiles, packs |-> e.packs, failed |-> e.failed]

\* the call of mergePacks has run to its next await or to the hand-over to the
\* worker; mergePacks writes none of the lists
EmitRun(k, run) ==
    /\ IF run.done
       THEN /\ emits' = RemoveAt(emits, k)
            /\ last' = [Did("emitted", 0, FALSE, FALSE) EXCEPT
                           !.out = Artifact(run.e, loadedPacks)]
       ELSE /\ emits' = IF k > Len(emits) THEN Append(emits, run.e)
                        ELSE [emits EXCEPT ![k] = run.e]
            /\ last' = Did(IF k > Len(emits) THEN "emitStarted" ELSE "emitRead",
                           0, FALSE, FALSE)
    /\ UNCHANGED <<loadedPacks, allFiles, deepAnalysisPerformed, analysisInProgress,
                   cache, modRegistry, analyses, handlers, nextId, toggles,
                   exportDisabled, depIssues>>

\* mergePacks(format) (lines 1018-1147) up to its first await.  It is the click
\* handler of the two export buttons, which fire only while they are not
\* disabled (lines 907-911)
RequestEmit(isZipMode) ==
    /\ ~exportDisabled
    /\ Len(emits) < MaxEmits
    /\ EmitRun(Len(emits) + 1,
               Collect([isZipMode |-> isZipMode, activeFiles |-> activeFiles(allFiles),
                        packs |-> loadedPacks, p |-> 0, packFiles |-> <<>>, seen |-> {},
                        workerFiles |-> <<>>, finalFiles |-> <<>>, failed |-> FALSE,
                        wait |-> ""],
                       loadedPacks, cache))

\* the read or fetch that call k of mergePacks awaits has settled; a read of
\* a blob held in memory does not fail
EmitSettled(k, ok) ==
    /\ k \in 1..Len(emits)
    /\ ok \/ emits[k].wait # "blob"
    /\ EmitRun(k, Collect(AfterRead(emits[k], ok), loadedPacks, cache))

\* the session after the archives q have been selected in one change event and
\* every await of the handler has settled before anything else happened
\* (lines 616-699): the packs and the records, before the quick analysis
RECURSIVE LoadAll(_, _, _, _)
LoadAll(q, packs, files, pId) ==
    IF q = <<>> THEN [packs |-> packs, files |-> files]
    ELSE IF Archives[Head(q)].hasIndex
    THEN IF NameLoaded(packs, Archives[Head(q)].indexName)
         THEN LoadAll(Tail(q), packs, files, pId + 1)
         ELSE LoadAll(Tail(q), Append(packs, IndexedPack(Archives[Head(q)], pId)),
                      files \o IndexedPackFiles(Archives[Head(q)], pId), pId + 1)
    ELSE IF NameLoaded(packs, Archives[Head(q)].name)
    THEN LoadAll(Tail(q), packs, files, pId + 1)
    ELSE LoadAll(Tail(q), Append(packs, StandardPack(Archives[Head(q)], pId, packs)),
                 files \o StandardPackFiles(Archives[Head(q)], pId), pId + 1)

\* the selections that the emitting sessions start from: alpha, gamma, both in
\* either order, alpha with beta
EmitSessions == {<<1>>, <<3>>, <<1, 3>>, <<3, 1>>, <<1, 2>>}

\* a session in which one change event has loaded its archives
InitEmit ==
    \E q \in EmitSessions :
        /\ loadedPacks = LoadAll(q, <<>>, <<>>, 1).packs
        /\ allFiles = performQuick(LoadAll(q, <<>>, <<>>, 1).packs,
                                   LoadAll(q, <<>>, <<>>, 1).files, FALSE)
        /\ deepAnalysisPerformed = FALSE
        /\ analysisInProgress = FALSE
        /\ cache = EmptyMap
        /\ modRegistry = <<>>
        /\ analyses = <<>>
        /\ handlers = <<>>
        /\ nextId = Len(q)
        /\ toggles = 0
        /\ exportDisabled = (Len(LoadAll(q, <<>>, <<>>, 1).packs) = 0
                             \/ Len(checkPackCompatibility(LoadAll(q, <<>>, <<>>, 1).packs)) > 0)
        /\ depIssues = <<>>
        /\ emits = <<>>
        /\ last = [op |-> "init", arg |-> 0, quick |-> FALSE, pass |-> FALSE,
                   changed |-> FALSE, out |-> NoOutput]

\* the emitter with the handlers that change the lists it walks
NextEmit ==
    \/ \E idx \in 1..MaxPacks : removePack(idx)
    \/ \E idx \in 1..MaxPacks, direction \in {-1, 1} : movePriority(idx, direction)
    \/ \E k \in 1..Len(allFiles) : toggleFile(k)
    \/ \E isZipMode \in BOOLEAN : RequestEmit(isZipMode)
    \/ \E k \in 1..MaxEmits, ok \in BOOLEAN : EmitSettled(k, ok)

SpecEmit == InitEmit /\ [][NextEmit]_vars

\* the emitter with the handlers that decide whether the export buttons are
\* disabled: load, edit and deep analysis
NextGate ==
    \/ \E q \in Selections(MaxSelect) : FileInputChange(q)
    \/ \E h \in 1..MaxHandlers : LoadResumed(h)
    \/ \E idx \in 1..MaxPacks, field \in {"ver", "loader"} :
          \E newVal \in EditValues(field) : editMetadata(idx, field, newVal)
    \/ \E confirmed \in BOOLEAN : RequestDeepAnalysis(confirmed)
    \/ \E a \in 1..Len(analyses), j \in 1..batchSize, ok \in BOOLEAN : FetchSettled(a, j, ok)
    \/ \E isZipMode \in BOOLEAN : RequestEmit(isZipMode)
    \/ \E k \in 1..MaxEmits, ok \in BOOLEAN : EmitSettled(k, ok)

SpecGate == Init /\ [][NextGate]_vars



\* ------------------------------------------------- the priority pass on its own

\* file records of one call of resolveByPriority
MaxFiles == 3

\* the two indexed packs, as the loader builds them
PassPacks == <<IndexedPack(ArchiveAlpha, 1), IndexedPack(ArchiveBeta, 2)>>

\* the pack lists the pass is given
PackOrders == {<<PassPacks[1]>>, PassPacks, <<PassPacks[2], PassPacks[1]>>}

\* the records a pack may hold when the pass runs: an index file with one of two
\* paths and one of two jars, before or after a deep analysis has read the jar,
\* or an override
PassRecords ==
    {[NewFile(path, pId, PassPacks[pId].name, "mods", FALSE, <<url>>, 0)
         EXCEPT !.metadata = IF read THEN JarAt(url) ELSE NoMetadata] :
        path \in {ArchiveAlpha.indexFiles[1].path, ArchiveBeta.indexFiles[1].path},
        pId \in 1..2, url \in {U1, U2}, read \in BOOLEAN}
    \cup
    {NewFile(path, pId, PassPacks[pId].name, getCategory(path), TRUE, <<>>, 0) :
        path \in {SubSeq(ArchiveAlpha.entries[2].path, Len(S_overrides) + 1,
                         Len(ArchiveAlpha.entries[2].path))},
        pId \in 1..2}

\* the file lists the pass is given
PassLists ==
    UNION {{[k \in 1..n |-> [f[k] EXCEPT !.obj = k]] : f \in [1..n -> PassRecords]} :
              n \in 1..MaxFiles}

InitPass ==
    /\ loadedPacks \in PackOrders
    /\ allFiles \in {fs \in PassLists :
                        \A k \in 1..Len(fs) :
                            \E p \in 1..Len(loadedPacks) : loadedPacks[p].id = fs[k].pId}
    /\ deepAnalysisPerformed = FALSE
    /\ analysisInProgress = FALSE
    /\ cache = EmptyMap
    /\ modRegistry = <<>>
    /\ analyses = <<>>
    /\ handlers = <<>>
    /\ nextId = 2
    /\ toggles = 0
    /\ exportDisabled = FALSE
    /\ depIssues = <<>>
    /\ emits = <<>>
    /\ last = [op |-> "init", arg |-> 0, quick |-> FALSE, pass |-> FALSE,
               changed |-> FALSE, out |-> NoOutput]

\* conflictResolver.resolveByPriority(allFiles, loadedPacks) (lines 708, 724, 741)
PriorityPass ==
    /\ allFiles' = resolveByPriority(allFiles, loadedPacks)
    /\ last' = Did("pass", 0, FALSE, TRUE)
    /\ UNCHANGED <<loadedPacks, deepAnalysisPerformed, analysisInProgress, cache,
                   modRegistry, analyses, handlers, nextId, toggles, exportDisabled,
                   depIssues, emits>>

NextPass ==
    \/ PriorityPass
    \/ \E k \in 1..MaxFiles : toggleFile(k)
    \/ \E idx \in 1..MaxPacks, direction \in {-1, 1} : movePriority(idx, direction)

SpecPass == InitPass /\ [][NextPass]_vars

\* ------------------------------------- the priority pass on files of one slug

\* the records of a pass whose file names differ in the version only, so that
\* extractModSlug gives libx for both: an index file with one of two jars,
\* before or after a deep analysis has read the jar
SlugRecords ==
    {[NewFile(path, pId, PassPacks[pId].name, "mods", FALSE, <<url>>, 0)
         EXCEPT !.metadata = IF read THEN JarAt(url) ELSE NoMetadata] :
        path \in {S_mods \o S_libx \o <<"-", "1", ".", "1", ".", "0">> \o S_jar,
                  S_mods \o S_libx \o <<"-", "1", ".", "2", ".", "0">> \o S_jar},
        pId \in 1..2, url \in {U1, U2}, read \in BOOLEAN}

SlugLists ==
    UNION {{[k \in 1..n |-> [f[k] EXCEPT !.obj = k]] : f \in [1..n -> SlugRecords]} :
              n \in 1..MaxFiles}

InitSlug ==
    /\ loadedPacks \in PackOrders
    /\ allFiles \in {fs \in SlugLists :
                        \A k \in 1..Len(fs) :
                            \E p \in 1..Len(loadedPacks) : loadedPacks[p].id = fs[k].pId}
    /\ deepAnalysisPerformed = FALSE
    /\ analysisInProgress = FALSE
    /\ cache = EmptyMap
    /\ modRegistry = <<>>
    /\ analyses = <<>>
    /\ handlers = <<>>
    /\ nextId = 2
    /\ toggles = 0
    /\ exportDisabled = FALSE
    /\ depIssues = <<>>
    /\ emits = <<>>
    /\ last = [op |-> "init", arg |-> 0, quick |-> FALSE, pass |-> FALSE,
               changed |-> FALSE, out |-> NoOutput]

NextSlug ==
    \/ PriorityPass
    \/ \E idx \in 1..MaxPacks, direction \in {-1, 1} : movePriority(idx, direction)

SpecSlug == InitSlug /\ [][NextSlug]_vars

\* ------------------------------------------------ the deep analysis on its own

\* mod files of the short and of the long lists that a deep analysis is given
ShortList == 3

LongList == 6

\* the path of the k-th index file of the pack: mods/a.jar, mods/b.jar, ...
DeepPath(k) == S_mods \o <<LowerChars[k]>> \o S_jar

\* the urls the k-th index file may carry: any jar of the catalog in a short
\* list; in a long list the second file may share the url of the first, and
\* the sixth, which falls into the second batch, may share it too, or carry
\* the jar that does not parse or the jar whose mod id is the url of the
\* first; in a list that is longer by one the second batch has that jar and
\* one more fetch beside it
DeepUrls(n, k) ==
    IF n = ShortList THEN {U1, U2, U3, U4, U5}
    ELSE IF k = 1 THEN {U1}
    ELSE IF k = 2 THEN {U1, U2}
    ELSE IF k = 3 THEN {U3}
    ELSE IF k = 4 THEN {U4}
    ELSE IF k = 5 THEN {U5}
    ELSE IF n = LongList THEN {U1, U6, U7}
    ELSE IF k = LongList THEN {U7}
    ELSE {U6}

\* the records of an indexed pack with n index files and no overrides
DeepLists ==
    UNION {{[k \in 1..n |-> NewFile(DeepPath(k), 1, PassPacks[1].name, "mods", FALSE,
                                    <<u[k]>>, k)] :
               u \in {v \in [1..n -> {U1, U2, U3, U4, U5, U6, U7}] :
                         \A k \in 1..n : v[k] \in DeepUrls(n, k)}} :
           n \in {ShortList, LongList, LongList + 1}}

\* a session in which one indexed pack has been loaded
InitDeep ==
    /\ loadedPacks = <<PassPacks[1]>>
    /\ allFiles \in {performQuick(<<PassPacks[1]>>, fs, FALSE) : fs \in DeepLists}
    /\ deepAnalysisPerformed = FALSE
    /\ analysisInProgress = FALSE
    /\ cache = EmptyMap
    /\ modRegistry = <<>>
    /\ analyses = <<>>
    /\ handlers = <<>>
    /\ nextId = 1
    /\ toggles = 0
    /\ exportDisabled = FALSE
    /\ depIssues = <<>>
    /\ emits = <<>>
    /\ last = [op |-> "init", arg |-> 0, quick |-> FALSE, pass |-> FALSE,
               changed |-> FALSE, out |-> NoOutput]

NextDeep ==
    \/ \E confirmed \in BOOLEAN : RequestDeepAnalysis(confirmed)
    \/ \E a \in 1..Len(analyses), j \in 1..batchSize, ok \in BOOLEAN : FetchSettled(a, j, ok)

SpecDeep == InitDeep /\ [][NextDeep]_vars

\* a fetch is outstanding: the states in which SettleFetch is enabled
FetchOutstanding == \E a \in 1..Len(analyses) : Outstanding(analyses[a]) # {}

\* some outstanding fetch settles, with the jar or with an error
SettleFetch ==
    \E a \in 1..Len(analyses), j \in 1..batchSize, ok \in BOOLEAN : FetchSettled(a, j, ok)

\* weak fairness of SettleFetch, WF_vars(SettleFetch), written out with the
\* state predicate that ENABLED <<SettleFetch>>_vars is equal to: the network
\* answers every fetch in the end
FetchesSettle == []<>(~FetchOutstanding) \/ []<><<SettleFetch>>_vars

\* the deep analysis when every fetch that is outstanding settles in the end
SpecDeepLive == InitDeep /\ [][NextDeep]_vars /\ FetchesSettle

\* ------------------------------------------------------- emit and load again

\* files in the index and entries in the zip of a drawn pack
MaxTrip == 2

\* the sequences of at most n elements of s
RECURSIVE SeqsUpTo(_, _)
SeqsUpTo(s, n) ==
    IF n = 0 THEN {<<>>}
    ELSE SeqsUpTo(s, n - 1) \cup {Append(q, x) : q \in SeqsUpTo(s, n - 1), x \in s}

\* the keys of zip.files are distinct
DistinctPaths(es) == \A i, j \in 1..Len(es) : es[i].path = es[j].path => i = j

TripDescriptors ==
    {ArchiveAlpha.indexFiles[1], ArchiveBeta.indexFiles[1], ArchiveDelta.indexFiles[1]}

TripOverrides ==
    {ArchiveAlpha.entries[2],
     [path |-> S_overrides \o ArchiveGamma.entries[2].path, dir |-> FALSE]}

TripEntries ==
    {ArchiveGamma.entries[2],
     [path |-> SubSeq(ArchiveAlpha.entries[2].path, Len(S_overrides) + 1,
                      Len(ArchiveAlpha.entries[2].path)),
      dir |-> FALSE],
     ArchiveAlpha.entries[2]}

\* the packs a round trip starts from: indexed packs and standard zips
TripArchives ==
    {[ArchiveAlpha EXCEPT !.indexFiles = fs, !.entries = es] :
        fs \in SeqsUpTo(TripDescriptors, MaxTrip),
        es \in {q \in SeqsUpTo(TripOverrides, MaxTrip) : DistinctPaths(q)}}
    \cup {[ArchiveGamma EXCEPT !.entries = es] :
             es \in {q \in SeqsUpTo(TripEntries, MaxTrip) : DistinctPaths(q)}}

\* lines 620-691 in an empty session: the pack and the records of archive a
TripSession(a) ==
    IF a.hasIndex
    THEN [packs |-> <<IndexedPack(a, 1)>>, files |-> IndexedPackFiles(a, 1)]
    ELSE [packs |-> <<StandardPack(a, 1, <<>>)>>, files |-> StandardPackFiles(a, 1)]

\* the folders above path, outermost first, as zip.file creates them
RECURSIVE ParentFolders(_, _)
ParentFolders(path, k) ==
    IF k = 0 THEN <<>>
    ELSE ParentFolders(path, k - 1)
         \o (IF path[k] = "/" THEN <<[path |-> SubSeq(path, 1, k), dir |-> TRUE]>> ELSE <<>>)

\* zip.files[e.path] = e: a new key goes last, a key that exists keeps its place
ZipPut(entries, e) ==
    IF \E i \in 1..Len(entries) : entries[i].path = e.path
    THEN [i \in 1..Len(entries) |-> IF entries[i].path = e.path /\ ~e.dir THEN e ELSE entries[i]]
    ELSE Append(entries, e)

RECURSIVE ZipPutAll(_, _)
ZipPutAll(entries, es) ==
    IF es = <<>> THEN entries ELSE ZipPutAll(ZipPut(entries, Head(es)), Tail(es))

\* line 1120: files.forEach(f => zip.file(f.path, f.data)), as the entries of
\* the zip that comes out
RECURSIVE WorkerZip(_, _)
WorkerZip(entries, files) ==
    IF files = <<>> THEN entries
    ELSE WorkerZip(ZipPutAll(entries,
                             Append(ParentFolders(Head(files).path, Len(Head(files).path) - 1),
                                    [path |-> Head(files).path, dir |-> FALSE])),
                   Tail(files))

S_merged == "Merged Pack"

\* lines 1095-1110 and 1137: the archive that saveAs receives, as the loader
\* reads it
EmittedArchive(out) ==
    [name |-> "Merged Pack-1.0.0.mrpack", readable |-> TRUE,
     hasIndex |-> \E i \in 1..Len(out.files) : out.files[i].path = S_index,
     indexOk |-> TRUE, indexName |-> S_merged,
     dependencies |-> out.dependencies, indexFiles |-> out.descriptors,
     entries |-> WorkerZip(<<>>, out.files),
     hasManifest |-> FALSE, foundVer |-> "", foundLoader |-> ""]

\* the page is loaded anew and the archive that the last call of mergePacks
\* saved is selected in the file input (lines 616-699); nothing else happens
\* before the handler is through
LoadEmitted(session) ==
    /\ last.out.made
    /\ ~last.out.isZipMode
    /\ loadedPacks' = session.packs
    /\ allFiles' = performQuick(session.packs, session.files, FALSE)
    /\ deepAnalysisPerformed' = FALSE
    /\ analysisInProgress' = FALSE
    /\ cache' = EmptyMap
    /\ modRegistry' = <<>>
    /\ analyses' = <<>>
    /\ handlers' = <<>>
    /\ nextId' = 1
    /\ toggles' = 0
    /\ updateUI(session.packs)
    /\ depIssues' = <<>>
    /\ emits' = <<>>
    /\ last' = [DidQuick("loadedEmitted", 0, session.packs, FALSE) EXCEPT !.out = last.out]

\* a session in which one drawn pack has been loaded
InitTrip ==
    \E a \in TripArchives :
        /\ loadedPacks = TripSession(a).packs
        /\ allFiles = performQuick(TripSession(a).packs, TripSession(a).files, FALSE)
        /\ deepAnalysisPerformed = FALSE
        /\ analysisInProgress = FALSE
        /\ cache = EmptyMap
        /\ modRegistry = <<>>
        /\ analyses = <<>>
        /\ handlers = <<>>
        /\ nextId = 1
        /\ toggles = 0
        /\ exportDisabled = FALSE
        /\ depIssues = <<>>
        /\ emits = <<>>
        /\ last = [op |-> "init", arg |-> 0, quick |-> FALSE, pass |-> FALSE,
                   changed |-> FALSE, out |-> NoOutput]

NextTrip ==
    \/ \E isZipMode \in BOOLEAN : RequestEmit(isZipMode)
    \/ \E k \in 1..MaxEmits, ok \in BOOLEAN : EmitSettled(k, ok)
    \/ LoadEmitted(TripSession(EmittedArchive(last.out)))

SpecTrip == InitTrip /\ [][NextTrip]_vars

\* ------------------------------------------- the validator on drawn versions

\* version strings as manifests carry them
Versions ==
    {<<"1", ".", "2", ".", "3">>, <<"1", ".", "2", ".", "9", "9">>,
     <<"1", ".", "3", ".", "0">>, <<"1", ".", "2", ".", "2">>,
     <<"1", ".", "2">>, <<"2">>, <<"0", ".", "9", ".", "9">>,
     <<"1", ".", "1", "0", ".", "0">>,
     <<"v", "1", ".", "2", ".", "3", "-", "b", "e", "t", "a">>,
     <<"1", ".", "2", ".", "3", "+", "7">>,
     S_unknown}

\* lines 321-329: the registry entry of an analysed file with one mod
VersionEntry(url, k, mod) ==
    [key |-> url,
     val |-> [metadata |-> [has |-> TRUE, mods |-> <<mod>>, bundled |-> <<>>],
              fileName |-> AfterLast(DeepPath(k), "/"), packName |-> PassPacks[1].name]]

\* a registry of three mods: libx at version a; app at version b, which
\* depends on libx ~b; core at version c, which depends on app >=c
VersionRegistry(a, b, c) ==
    <<VersionEntry(U1, 1, ModWith(S_libx, a, <<>>, <<>>)),
      VersionEntry(U3, 2, ModWith(S_app, b, <<[id |-> S_libx, range |-> <<"~">> \o b]>>,
                                  <<>>)),
      VersionEntry(U4, 3, ModWith(S_core, c,
                                  <<[id |-> S_app, range |-> <<">", "=">> \o c]>>, <<>>))>>

\* a session whose deep analysis has filled the registry
InitVersions ==
    /\ loadedPacks = <<PassPacks[1]>>
    /\ allFiles = <<>>
    /\ deepAnalysisPerformed = FALSE
    /\ analysisInProgress = FALSE
    /\ cache = EmptyMap
    /\ modRegistry \in {VersionRegistry(a, b, c) : a \in Versions, b \in Versions, c \in Versions}
    /\ analyses = <<>>
    /\ handlers = <<>>
    /\ nextId = 1
    /\ toggles = 0
    /\ exportDisabled = FALSE
    /\ depIssues = <<>>
    /\ emits = <<>>
    /\ last = [op |-> "init", arg |-> 0, quick |-> FALSE, pass |-> FALSE,
               changed |-> FALSE, out |-> NoOutput]

\* lines 742-743: dependencyValidator.validate(conflictResolver.modRegistry)
Validate ==
    /\ depIssues' = validate(modRegistry)
    /\ last' = Did("validated", 0, FALSE, FALSE)
    /\ UNCHANGED <<loadedPacks, allFiles, deepAnalysisPerformed, analysisInProgress, cache,
                   modRegistry, analyses, handlers, nextId, toggles, exportDisabled, emits>>

NextVersions == Validate

SpecVersions == InitVersions /\ [][NextVersions]_vars

\* --------------------------------------- the validator on real and provided ids

\* the versions of the entries about corelib
AliasVersions ==
    {<<"1", ".", "0", ".", "0">>, <<"2", ".", "0", ".", "0">>, <<"3", ".", "0", ".", "0">>}

\* lines 321-329: the registry entry of an analysed file
AliasEntry(url, k, mods, bundled) ==
    [key |-> url,
     val |-> [metadata |-> [has |-> TRUE, mods |-> mods, bundled |-> bundled],
              fileName |-> AfterLast(DeepPath(k), "/"), packName |-> PassPacks[1].name]]

\* registry entries about corelib: a file whose mod is corelib, a file whose
\* mod core provides corelib, and a file whose mod app depends on corelib and
\* bundles it, each at any of the versions
AliasEntries ==
    {AliasEntry(U1, 1, <<ModEntry(S_corelib, v)>>, <<>>) : v \in AliasVersions}
    \cup {AliasEntry(U4, 2, <<ModWith(S_core, v, <<>>, <<S_corelib>>)>>, <<>>) :
             v \in AliasVersions}
    \cup {AliasEntry(U3, 3,
                     <<ModWith(S_app, <<"1", ".", "5", ".", "0">>,
                               <<[id |-> S_corelib,
                                  range |-> <<">", "=", "2", ".", "0", ".", "0">>]>>,
                               <<>>)>>,
                     <<ModEntry(S_corelib, v)>>) : v \in AliasVersions}

\* the registries of those entries, in every order of analysis
AliasRegistries ==
    {reg \in SeqsUpTo(AliasEntries, 3) :
        Len(reg) > 0 /\ \A i, j \in 1..Len(reg) : reg[i].key = reg[j].key => i = j}

\* a session whose deep analysis has filled the registry with them
InitAlias ==
    /\ loadedPacks = <<PassPacks[1]>>
    /\ allFiles = <<>>
    /\ deepAnalysisPerformed = FALSE
    /\ analysisInProgress = FALSE
    /\ cache = EmptyMap
    /\ modRegistry \in AliasRegistries
    /\ analyses = <<>>
    /\ handlers = <<>>
    /\ nextId = 1
    /\ toggles = 0
    /\ exportDisabled = FALSE
    /\ depIssues = <<>>
    /\ emits = <<>>
    /\ last = [op |-> "init", arg |-> 0, quick |-> FALSE, pass |-> FALSE,
               changed |-> FALSE, out |-> NoOutput]

NextAlias == Validate

SpecAlias == InitAlias /\ [][NextAlias]_vars

\* ------------------------------------------------------------------ properties

\* the record belongs to a pack of the pack list
Listed(f) == \E p \in 1..Len(loadedPacks) : loadedPacks[p].id = f.pId

\* the record carries metadata with at least one mod entry
HasMods(f) == f.metadata.has /\ Len(f.metadata.mods) > 0

\* C1: immediately after a priority pass over the current pack list and file
\* list, no two enabled records of listed packs have the same path
NoSharedPathAfterPass ==
    last.pass =>
        \A i, j \in 1..Len(allFiles) :
            (/\ i # j
             /\ allFiles[i].enabled /\ allFiles[j].enabled
             /\ Listed(allFiles[i]) /\ Listed(allFiles[j]))
            => allFiles[i].path # allFiles[j].path

\* a pass has just switched off a record whose path an earlier record holds
SharedPathResolved ==
    /\ last.pass
    /\ \E i, j \in 1..Len(allFiles) :
          /\ i # j
          /\ allFiles[i].path = allFiles[j].path
          /\ Listed(allFiles[i]) /\ Listed(allFiles[j])
          /\ allFiles[i].enabled
          /\ ~allFiles[j].enabled /\ allFiles[j].isDuplicate
          /\ allFiles[j].conflictReason = ReasonPath
          /\ allFiles[j].category # "mods"

\* C2: after a priority pass over files that carry metadata, no two enabled
\* files list the same mod id with one version strictly lower than the other's
NoOlderVersionEnabled ==
    last.pass =>
        \A i, j \in 1..Len(allFiles) :
            (/\ allFiles[i].enabled /\ allFiles[j].enabled
             /\ Listed(allFiles[i]) /\ Listed(allFiles[j]))
            => \A m \in 1..Len(allFiles[i].metadata.mods),
                  n \in 1..Len(allFiles[j].metadata.mods) :
                   allFiles[i].metadata.mods[m].id = allFiles[j].metadata.mods[n].id
                   => compare(allFiles[i].metadata.mods[m].version,
                              allFiles[j].metadata.mods[n].version) >= 0

\* the record survives a pass: enabled, not a duplicate, a mod, with metadata
Survives(f) == f.enabled /\ ~f.isDuplicate /\ f.category = "mods" /\ HasMods(f)

\* C3: after a priority pass, no two surviving mod files have the same primary
\* ModEntry id (the id of the first entry of metadata.mods)
UniquePrimaryId ==
    last.pass =>
        \A i, j \in 1..Len(allFiles) :
            (/\ i # j
             /\ Listed(allFiles[i]) /\ Listed(allFiles[j])
             /\ Survives(allFiles[i]) /\ Survives(allFiles[j]))
            => allFiles[i].metadata.mods[1].id # allFiles[j].metadata.mods[1].id

\* the enabled and isDuplicate flags of a file list, record by record
Flags(files) == [k \in 1..Len(files) |-> <<files[k].enabled, files[k].isDuplicate>>]

\* the file list with every record's flags set to e and d
WithFlags(files, e, d) ==
    [k \in 1..Len(files) |-> [files[k] EXCEPT !.enabled = e, !.isDuplicate = d]]

\* C4: the flags a priority pass leaves are those that the pass gives from any
\* other flags on the same records and the same pack order, and a second pass
\* changes no flag
FlagsFromOrderAlone ==
    last.pass =>
        /\ \A e, d \in BOOLEAN :
              Flags(resolveByPriority(WithFlags(allFiles, e, d), loadedPacks))
                  = Flags(allFiles)
        /\ Flags(resolveByPriority(allFiles, loadedPacks)) = Flags(allFiles)

\* a file record without the fields that a priority pass writes
Bare(f) ==
    [f EXCEPT !.enabled = TRUE, !.isDuplicate = FALSE, !.keptSource = NoSource,
              !.conflictReason = NoReason]

BareList(files) == [k \in 1..Len(files) |-> Bare(files[k])]

\* C5: removePack(idx) takes out of the pack list the pack at idx and nothing
\* else, the other packs keeping their order, and out of the file list the
\* records of that pack's id and nothing else, the others keeping their order
RemovePackFrame ==
    [][last'.op = "remove" =>
          /\ last'.arg \in 1..Len(loadedPacks)
          /\ Len(loadedPacks') = Len(loadedPacks) - 1
          /\ \A k \in 1..Len(loadedPacks') :
                loadedPacks'[k] = loadedPacks[IF k < last'.arg THEN k ELSE k + 1]
          /\ BareList(allFiles')
                = SeqFilter(BareList(allFiles),
                            {Bare(allFiles[k]) : k \in
                                {x \in 1..Len(allFiles) :
                                    allFiles[x].pId # loadedPacks[last'.arg].id}})]_vars

\* a pack was removed whose id is not its position, and a pack with files stays
RemovedOneOfTwo ==
    /\ last.op = "remove"
    /\ Len(loadedPacks) = 1
    /\ loadedPacks[1].id = 1
    /\ last.arg = 1
    /\ Len(allFiles) > 0

\* C6: once a load, a remove, a reorder or an edit has been handled,
\* deepAnalysisPerformed is false and the quick analysis has run
EventResetsAndAnalyses ==
    last.op \in {"load", "remove", "reorder", "edit"}
        => ~deepAnalysisPerformed /\ last.quick

\* the handlers that a request for a deep analysis ends in
DeepRequestOps == {"deepBlocked", "deepRefused", "deepDeclined", "deepStarted", "deepRun"}

\* C7: at most one deep analysis is in flight, and a request made while the
\* latch is set starts no fetch and changes neither the file list nor the mod
\* registry
OneDeepAnalysis ==
    [][/\ Cardinality({a \in 1..Len(analyses') : ~analyses'[a].dead}) <= 1
       /\ (analysisInProgress /\ last'.op \in DeepRequestOps)
          => /\ analyses' = analyses
             /\ allFiles' = allFiles
             /\ modRegistry' = modRegistry
             /\ cache' = cache]_vars

\* a request was made while an analysis was waiting for a fetch
RequestWhileInFlight ==
    /\ last.op = "deepBlocked"
    /\ analysisInProgress
    /\ Len(analyses) = 1
    /\ \E j \in 1..Len(analyses[1].slots) : ~analyses[1].slots[j].done

\* C8: deepAnalysisPerformed is true only if no pack was loaded, removed or
\* moved since the start of the deep analysis that set it
PerformedOnlyIfUnchanged == deepAnalysisPerformed => ~last.changed

\* the archive a pack of the pack list was loaded from
ArchiveOf(pack) ==
    Archives[CHOOSE a \in 1..Len(Archives) :
                IF pack.type = "modrinth"
                THEN Archives[a].hasIndex /\ Archives[a].indexName = pack.name
                ELSE ~Archives[a].hasIndex /\ Archives[a].name = pack.name]

\* the records that loading the pack created
CreatedFor(pack) ==
    IF pack.type = "modrinth" THEN IndexedPackFiles(ArchiveOf(pack), pack.id)
    ELSE StandardPackFiles(ArchiveOf(pack), pack.id)

\* C9: the file list holds exactly the records of the loaded packs: every
\* record belongs to a listed pack, and every record created by loading a
\* listed pack is in the list
FilesOfLoadedPacks ==
    /\ \A k \in 1..Len(allFiles) : Listed(allFiles[k])
    /\ \A p \in 1..Len(loadedPacks) :
          \A r \in 1..Len(CreatedFor(loadedPacks[p])) :
              \E k \in 1..Len(allFiles) :
                  /\ SameObject(allFiles[k], CreatedFor(loadedPacks[p])[r])
                  /\ allFiles[k].path = CreatedFor(loadedPacks[p])[r].path

\* C10: a request for a deep analysis made while the pack list has
\* compatibility issues starts no fetch, leaves the latch as it is, and leaves
\* the file list, the mod registry and deepAnalysisPerformed unchanged
RefusedDeepAnalysis ==
    [][(/\ Len(checkPackCompatibility(loadedPacks)) > 0
        /\ last'.op \in DeepRequestOps)
       => /\ analyses' = analyses
          /\ analysisInProgress' = analysisInProgress
          /\ allFiles' = allFiles
          /\ modRegistry' = modRegistry
          /\ deepAnalysisPerformed' = deepAnalysisPerformed
          /\ cache' = cache]_vars

\* a request was refused for compatibility issues, with no analysis in flight
RequestRefused ==
    /\ last.op = "deepRefused"
    /\ ~analysisInProgress
    /\ Len(checkPackCompatibility(loadedPacks)) > 0
    /\ Len(allFiles) > 0


\* C11: no call of mergePacks is made, and so no artifact is produced, in a
\* state in which the compatibility issue list of the pack list is not empty,
\* whatever loads and edits happened while a deep analysis was in flight
EmitOnlyWithoutIssues ==
    /\ \A k \in 1..Len(emits) : Len(checkPackCompatibility(emits[k].packs)) = 0
    /\ last.out.made => Len(checkPackCompatibility(last.out.packs)) = 0


\* the files of the analysis that have been submitted so far
Submitted(act) == SubSeq(act.toAnalyze, 1, act.i + Len(act.slots))

\* C12: at any moment of a deep analysis at most 5 fetch+parse operations are in
\* flight, and no operation of a later batch has started while one of the
\* current batch is outstanding: every earlier batch is in the enriched list,
\* and a file behind the current batch has left no trace in the metadata
\* cache unless a submitted file carries its url
BatchesOfFive ==
    \A a \in 1..Len(analyses) :
        /\ Cardinality({j \in 1..Len(analyses[a].slots) : ~analyses[a].slots[j].done}) <= 5
        /\ Len(analyses[a].slots) <= 5
        /\ Len(analyses[a].enriched)
              = Len(allFiles) - Len(analyses[a].toAnalyze) + analyses[a].i
        /\ \A k \in 1..Len(analyses[a].toAnalyze) :
              (k > analyses[a].i + Len(analyses[a].slots)
               /\ MapHas(cache, analyses[a].toAnalyze[k].downloads[1]))
              => \E m \in 1..Len(Submitted(analyses[a])) :
                     Submitted(analyses[a])[m].downloads[1]
                         = analyses[a].toAnalyze[k].downloads[1]

\* the second batch of an analysis is in flight, after a first batch of five
SecondBatchInFlight ==
    \E a \in 1..Len(analyses) :
        /\ analyses[a].i = 5
        /\ Len(analyses[a].enriched) >= 5
        /\ \E j \in 1..Len(analyses[a].slots) : ~analyses[a].slots[j].done


\* the outstanding slot of a batch that settles next when the fetches complete
\* in submission order (lowestFirst) or in the reverse order
NextToSettle(slots, lowestFirst) ==
    CHOOSE j \in 1..Len(slots) :
        /\ ~slots[j].done
        /\ \A m \in 1..Len(slots) :
              ~slots[m].done => IF lowestFirst THEN j <= m ELSE j >= m

\* the analysis after slot j has settled, run to its next suspension or its end
RECURSIVE Outcome(_, _, _, _, _)
OutcomeStep(act, reg, theCache, lowestFirst, oks, j) ==
    LET run == RunBatches(SettleSlot(act, j, oks[act.i + j], reg), reg,
                          CacheAfter(theCache, act, j, oks[act.i + j]))
    IN  Outcome(run.act, run.reg, CacheAfter(theCache, act, j, oks[act.i + j]),
                lowestFirst, oks)

\* what a suspended analysis ends with when its fetches settle in the given
\* order and the fetch of the k-th submitted file has the outcome oks[k]: the
\* file list with its flags, the registry and the dependency issues
Outcome(act, reg, theCache, lowestFirst, oks) ==
    IF RunBatches(act, reg, theCache).threw
    THEN [files |-> allFiles, registry |-> reg, issues |-> depIssues]
    ELSE IF \A j \in 1..Len(act.slots) : act.slots[j].done
    THEN [files |-> resolveByPriority(RunBatches(act, reg, theCache).act.enriched, loadedPacks),
          registry |-> RunBatches(act, reg, theCache).reg,
          issues |-> validate(RunBatches(act, reg, theCache).reg)]
    ELSE OutcomeStep(act, reg, theCache, lowestFirst, oks,
                     NextToSettle(act.slots, lowestFirst))

\* C13: the enriched file list, the registry, the kept and excluded flags and
\* the dependency issues of an analysis that has just started are the same
\* whether the fetches of each batch complete in submission order or in the
\* reverse order, for every assignment of outcomes to the fetches
SameForEveryCompletionOrder ==
    \A a \in 1..Len(analyses) :
        last.op = "deepStarted" =>
            \A oks \in [1..Len(analyses[a].toAnalyze) -> BOOLEAN] :
                Outcome(analyses[a], modRegistry, cache, TRUE, oks)
                    = Outcome(analyses[a], modRegistry, cache, FALSE, oks)


\* a deep analysis has just finished: its file list is installed and its
\* dependency issues are on display
AnalysisFinished == last.op \in {"deepRun", "deepDone"}

\* the registry entries of the files that the rich pass has kept
ResolvedRegistry ==
    LET kept(entry) == \E k \in 1..Len(allFiles) :
                          /\ allFiles[k].enabled
                          /\ allFiles[k].metadata.has
                          /\ RegistryKey(allFiles[k]) = entry.key
    IN  SelectSeq(modRegistry, kept)

\* C14: the dependency issues of a deep analysis are those of the resolved
\* mod set: the files that the rich pass excluded add nothing to the
\* presence index and none of their dependencies is reported
IssuesOfResolvedSet ==
    AnalysisFinished => depIssues = validate(ResolvedRegistry)

\* the mod ids that some analysed file declares, provides or bundles
PresentIds ==
    UNION {{modRegistry[i].val.metadata.mods[j].id :
               j \in 1..Len(modRegistry[i].val.metadata.mods)}
           \cup UNION {{modRegistry[i].val.metadata.mods[j].provides[m] :
                           m \in 1..Len(modRegistry[i].val.metadata.mods[j].provides)} :
                       j \in 1..Len(modRegistry[i].val.metadata.mods)}
           \cup {modRegistry[i].val.metadata.bundled[j].id :
                    j \in 1..Len(modRegistry[i].val.metadata.bundled)} :
           i \in 1..Len(modRegistry)}

\* the issue that the dependency dep of the primary mod is to be reported with,
\* as a sequence of one issue or of none
ExpectedIssue(primaryMod, dep) ==
    IF toLowerCase(dep.id) \in PlatformIds THEN <<>>
    ELSE IF dep.id \notin PresentIds
    THEN <<[type |-> "missing", modId |-> dep.id, requiredBy |-> primaryMod.id,
            requiredVersion |-> dep.range, presentVersion |-> <<>>]>>
    ELSE IF ~satisfies(presentMods(EmptyMap, modRegistry, 1)[dep.id], dep.range)
    THEN <<[type |-> "outdated", modId |-> dep.id, requiredBy |-> primaryMod.id,
            requiredVersion |-> dep.range,
            presentVersion |-> presentMods(EmptyMap, modRegistry, 1)[dep.id]]>>
    ELSE <<>>

\* the dependencies of the primary mods of the analysed files: registry
\* position and position in depends
PrimaryDependencies ==
    UNION {IF Len(modRegistry[i].val.metadata.mods) = 0 THEN {}
           ELSE {<<i, j>> : j \in 1..Len(modRegistry[i].val.metadata.mods[1].depends)} :
           i \in 1..Len(modRegistry)}

\* C15: for the primary mod of every analysed file and every dependency of it
\* whose id is not a platform identifier, validate reports exactly one issue:
\* missing when the id is not in the presence index, outdated, with the
\* present version, when the present version does not satisfy the range; it
\* reports nothing for a satisfied dependency, for a platform identifier and for
\* the dependencies of bundled entries
OneIssuePerDependency ==
    AnalysisFinished =>
        /\ \A k \in 1..Len(depIssues) :
              Cardinality({m \in 1..Len(depIssues) : depIssues[m] = depIssues[k]})
                  = Cardinality({d \in PrimaryDependencies :
                        ExpectedIssue(modRegistry[d[1]].val.metadata.mods[1],
                                      modRegistry[d[1]].val.metadata.mods[1].depends[d[2]])
                            = <<depIssues[k]>>})
        /\ \A d \in PrimaryDependencies :
              LET x == ExpectedIssue(modRegistry[d[1]].val.metadata.mods[1],
                                     modRegistry[d[1]].val.metadata.mods[1].depends[d[2]])
              IN  x # <<>> => \E k \in 1..Len(depIssues) : <<depIssues[k]>> = x

\* an analysis has reported a missing and an outdated dependency, skipped a
\* platform identifier and left the dependency of a bundled mod alone
MissingAndOutdatedReported ==
    /\ AnalysisFinished
    /\ \E k \in 1..Len(depIssues) : depIssues[k].type = "missing"
    /\ \E k \in 1..Len(depIssues) : depIssues[k].type = "outdated"
    /\ \E d \in PrimaryDependencies :
          toLowerCase(modRegistry[d[1]].val.metadata.mods[1].depends[d[2]].id) \in PlatformIds
    /\ \E i \in 1..Len(modRegistry) : Len(modRegistry[i].val.metadata.bundled) > 0


\* the path inside the pack that an entry of the artifact stands for
TargetPath(out, entry) ==
    IF out.isZipMode THEN entry.path
    ELSE SubSeq(entry.path, Len(S_overrides) + 1, Len(entry.path))

\* how many entries of the artifact, in the archive or in the descriptor's
\* file list, stand for the path
EntriesFor(out, path) ==
    Cardinality({j \in 1..Len(out.files) :
                    out.files[j].data.from # "index" /\ TargetPath(out, out.files[j]) = path})
    + Cardinality({j \in 1..Len(out.descriptors) : out.descriptors[j].path = path})

\* the position in the pack list of the pack with this id, 0 when it is not listed
PackPos(packs, pId) ==
    IF \E i \in 1..Len(packs) : packs[i].id = pId
    THEN CHOOSE i \in 1..Len(packs) : packs[i].id = pId
    ELSE 0

\* the enabled files of listed packs that hold the path, by position in the
\* list of enabled files
Holders(out, path) ==
    {k \in 1..Len(out.activeFiles) :
        out.activeFiles[k].path = path /\ PackPos(out.packs, out.activeFiles[k].pId) > 0}

\* the holder of the path in the earliest pack, and the first of that pack
FirstHolder(out, path) ==
    out.activeFiles[
        CHOOSE k \in Holders(out, path) :
            \A m \in Holders(out, path) :
                \/ PackPos(out.packs, out.activeFiles[k].pId)
                      < PackPos(out.packs, out.activeFiles[m].pId)
                \/ /\ out.activeFiles[k].pId = out.activeFiles[m].pId
                   /\ k <= m]

\* the artifact holds the file: its bytes in the archive, or its descriptor
EntryOf(out, f) ==
    IF out.isZipMode \/ f.isStandard
    THEN \E j \in 1..Len(out.files) : out.files[j] = WorkerFile(out.isZipMode, f)
    ELSE \E j \in 1..Len(out.descriptors) : out.descriptors[j] = Original(f)

\* C16: in either mode an artifact holds at most one entry per path, and when
\* no read or fetch failed, every path that an enabled file of a listed pack
\* held when the export was requested has its entry from the enabled file of
\* the earliest pack, in the order of the pack list, that holds the path
OneEntryPerPathFromEarliestPack ==
    last.out.made =>
        \A k \in 1..Len(last.out.activeFiles) :
            /\ EntriesFor(last.out, last.out.activeFiles[k].path) <= 1
            /\ (~last.out.failed /\ Holders(last.out, last.out.activeFiles[k].path) # {})
               => /\ EntriesFor(last.out, last.out.activeFiles[k].path) = 1
                  /\ EntryOf(last.out, FirstHolder(last.out, last.out.activeFiles[k].path))


\* the enabled files that the call started from, local or remote
ActiveOf(out, isStandard) ==
    {out.activeFiles[k] : k \in {m \in 1..Len(out.activeFiles) :
                                    out.activeFiles[m].isStandard = isStandard}}

\* C17: in index-descriptor mode every entry of the archive but the descriptor
\* is an enabled local file at overrides/<path> with the bytes of its zip
\* entry, every entry of the descriptor's file list is the original descriptor
\* of an enabled remote file, no entry holds bytes fetched from a url, and
\* the call never waits for a fetch or for a cached blob
IndexModeKeepsRemoteFilesOut ==
    /\ \A k \in 1..Len(emits) : ~emits[k].isZipMode => emits[k].wait = "entry"
    /\ (last.out.made /\ ~last.out.isZipMode) =>
          /\ \A j \in 1..Len(last.out.files) :
                \/ last.out.files[j] = [path |-> S_index, data |-> IndexBytes]
                \/ \E f \in ActiveOf(last.out, TRUE) :
                      /\ last.out.files[j].path = S_overrides \o f.path
                      /\ last.out.files[j].data = EntryBytes(f)
          /\ \A j \in 1..Len(last.out.descriptors) :
                \E f \in ActiveOf(last.out, FALSE) :
                    last.out.descriptors[j] = [path |-> f.path, downloads |-> f.downloads]
          /\ Cardinality({j \in 1..Len(last.out.files) : last.out.files[j].path = S_index}) = 1

\* an artifact in index-descriptor mode with a local file in the archive and
\* a remote file in the descriptor
IndexModeArtifact ==
    /\ last.out.made
    /\ ~last.out.isZipMode
    /\ \E j \in 1..Len(last.out.files) : last.out.files[j].data.from = "entry"
    /\ Len(last.out.descriptors) > 0


\* C18: a call of mergePacks in which a read or a fetch failed hands no files
\* to the worker, so no artifact comes out of it
FailedEmitMakesNoArtifact == ~(last.out.made /\ last.out.failed)


\* the enabled records of a file list: path, kind and download URLs
SurvivingSet(files) ==
    {[path |-> files[k].path, isStandard |-> files[k].isStandard,
      downloads |-> files[k].downloads] :
        k \in {m \in 1..Len(files) : files[m].enabled}}

\* C19: when the archive of an emit in index-descriptor mode is loaded into
\* an empty session, the enabled records after the quick analysis are the
\* enabled records the emit started from: the same paths, local or remote as
\* before, and for the remote ones the same download URLs
RoundTripKeepsSurvivingSet ==
    last.op = "loadedEmitted" =>
        SurvivingSet(allFiles) = SurvivingSet(last.out.activeFiles)


\* C20: no two packs of the pack list have the same name
NoTwoPacksShareName ==
    \A i, j \in 1..Len(loadedPacks) :
        loadedPacks[i].name = loadedPacks[j].name => i = j


MalformedJars == {U6}

\* C22: when a deep analysis has finished, every remote mods file it analysed
\* carries either the metadata parsed from its jar, which then is a jar whose
\* manifest parses, or the fallback: one ModEntry with the file's own name as
\* id and the version "unknown"
FailedFilesGetFallback ==
    AnalysisFinished =>
        \A k \in 1..Len(allFiles) :
            (allFiles[k].enabled /\ allFiles[k].category = "mods" /\ ~allFiles[k].isStandard)
            => \/ allFiles[k].metadata = Fallback(allFiles[k].fileName)
               \/ /\ allFiles[k].downloads[1] \notin MalformedJars
                  /\ allFiles[k].metadata = JarAt(allFiles[k].downloads[1])


\* C23: an entry of the metadata cache, once stored, stays as it is: no step
\* removes it or stores another entry under its key
CacheEntriesStay ==
    [][\A url \in DOMAIN cache :
          MapHas(cache, url) => MapHas(cache', url) /\ cache'[url] = cache[url]]_vars


\* C24: no two records of the file list have the same pack id and the same path
OneRecordPerPackAndPath ==
    \A i, j \in 1..Len(allFiles) :
        (allFiles[i].pId = allFiles[j].pId /\ allFiles[i].path = allFiles[j].path) => i = j


RegVersion(i) == modRegistry[i].val.metadata.mods[1].version

\* v <= version < next-minor(v), with next-minor((M, m, p)) = (M, m + 1, 0)
InMinorInterval(version, v) ==
    /\ compare(version, v) >= 0
    /\ compareParsed(parse(version),
                     [major |-> parse(v).major, minor |-> parse(v).minor + 1, patch |-> 0]) < 0

\* the outdated issue of app's dependency on libx
TildeIssue(version, v) ==
    [type |-> "outdated", modId |-> S_libx, requiredBy |-> S_app,
     requiredVersion |-> <<"~">> \o v, presentVersion |-> version]

TildeReported(version, v) == \E k \in 1..Len(depIssues) : depIssues[k] = TildeIssue(version, v)

\* C26: the validator finds libx at a version to satisfy the range ~v exactly
\* when v <= version < next-minor(v); for ~1.2.3 that is so on 1.2.3 and on
\* 1.2.99 and not so on 1.3.0 and on 1.2.2
TildeIsMinorInterval ==
    last.op = "validated" =>
        /\ ~TildeReported(RegVersion(1), RegVersion(2))
              <=> InMinorInterval(RegVersion(1), RegVersion(2))
        /\ RegVersion(2) = <<"1", ".", "2", ".", "3">> =>
              /\ RegVersion(1) \in {<<"1", ".", "2", ".", "3">>, <<"1", ".", "2", ".", "9", "9">>}
                    => ~TildeReported(RegVersion(1), RegVersion(2))
              /\ RegVersion(1) \in {<<"1", ".", "3", ".", "0">>, <<"1", ".", "2", ".", "2">>}
                    => TildeReported(RegVersion(1), RegVersion(2))

\* libx 1.2.99 has been found to satisfy ~1.2.3
TildeSatisfiedByLaterPatch ==
    /\ last.op = "validated"
    /\ RegVersion(1) = <<"1", ".", "2", ".", "9", "9">>
    /\ RegVersion(2) = <<"1", ".", "2", ".", "3">>
    /\ ~TildeReported(RegVersion(1), RegVersion(2))


Sign(n) == IF n > 0 THEN 1 ELSE IF n < 0 THEN -1 ELSE 0

\* the outdated issue of core's dependency on app
AtLeastIssue(version, v) ==
    [type |-> "outdated", modId |-> S_app, requiredBy |-> S_core,
     requiredVersion |-> <<">", "=">> \o v, presentVersion |-> version]

\* C27: on the versions of the registry compare is a total preorder: every
\* version compares equal to itself, swapping the arguments flips the sign,
\* and a <= b and b <= c give a <= c; and the validator reports app as
\* outdated for >=c exactly when compare puts app's version below c
CompareIsTotalPreorder ==
    last.op = "validated" =>
        /\ \A i, j, k \in 1..Len(modRegistry) :
              /\ compare(RegVersion(i), RegVersion(i)) = 0
              /\ Sign(compare(RegVersion(i), RegVersion(j)))
                    = -Sign(compare(RegVersion(j), RegVersion(i)))
              /\ (compare(RegVersion(i), RegVersion(j)) <= 0
                    /\ compare(RegVersion(j), RegVersion(k)) <= 0)
                  => compare(RegVersion(i), RegVersion(k)) <= 0
        /\ (\E n \in 1..Len(depIssues) :
                depIssues[n] = AtLeastIssue(RegVersion(2), RegVersion(3)))
           <=> compare(RegVersion(2), RegVersion(3)) < 0

\* three versions in strictly rising order, the second differing from the
\* first in the minor part only
RisingVersions ==
    /\ last.op = "validated"
    /\ compare(RegVersion(1), RegVersion(2)) < 0
    /\ compare(RegVersion(2), RegVersion(3)) < 0
    /\ parse(RegVersion(1)).major = parse(RegVersion(2)).major
    /\ parse(RegVersion(1)).minor < parse(RegVersion(2)).minor


\* the pass takes record j before record i: j's pack stands before i's in the
\* pack list, or they are of one pack and j stands before i in the file list
TakenBefore(j, i) ==
    \E p, q \in 1..Len(loadedPacks) :
        /\ loadedPacks[p].id = allFiles[j].pId
        /\ loadedPacks[q].id = allFiles[i].pId
        /\ p < q \/ (p = q /\ j < i)

\* C28: after a priority pass, a record excluded as an exact path duplicate
\* has a record of the same path that the pass took earlier and left enabled,
\* and its keptSource is that record's pack name; and every path of a record
\* of a listed pack has exactly one enabled record
PathDuplicateOfKeptFile ==
    last.pass =>
        /\ \A i \in 1..Len(allFiles) :
              (Listed(allFiles[i]) /\ allFiles[i].conflictReason = ReasonPath
                  /\ allFiles[i].isDuplicate)
              => \E j \in 1..Len(allFiles) :
                    /\ TakenBefore(j, i)
                    /\ allFiles[j].path = allFiles[i].path
                    /\ allFiles[j].enabled
                    /\ allFiles[i].keptSource = allFiles[j].pName
        /\ \A i \in 1..Len(allFiles) :
              Listed(allFiles[i])
              => Cardinality({j \in 1..Len(allFiles) :
                                 /\ Listed(allFiles[j])
                                 /\ allFiles[j].path = allFiles[i].path
                                 /\ allFiles[j].enabled}) = 1


\* C29: after a priority pass, a mods record of a listed pack that carries
\* metadata is excluded only by the path check or by the mod-id version
\* check: the slugs that earlier files registered do not exclude it
SlugCheckOnlyWithoutMetadata ==
    last.pass =>
        \A i \in 1..Len(allFiles) :
            (Listed(allFiles[i]) /\ allFiles[i].category = "mods" /\ allFiles[i].metadata.has)
            => \/ allFiles[i].enabled
               \/ allFiles[i].conflictReason = ReasonPath
               \/ allFiles[i].conflictReason.kind = ReasonOlder(<<>>).kind


\* C30: the file list that a deep analysis installs holds the records of
\* every pack in the order in which the loader made them (obj counts the
\* records of a pack in that order)
DeepAnalysisKeepsLoaderOrder ==
    AnalysisFinished =>
        \A i, j \in 1..Len(allFiles) :
            (i < j /\ allFiles[i].pId = allFiles[j].pId)
            => allFiles[i].obj < allFiles[j].obj


\* the mod ids that the metadata of a record lists
ListedIds(f) == {f.metadata.mods[m].id : m \in 1..Len(f.metadata.mods)}

\* the version under which the metadata of a record lists the mod id
ListedVersion(f, id) ==
    f.metadata.mods[CHOOSE m \in 1..Len(f.metadata.mods) : f.metadata.mods[m].id = id].version

\* C31: in the file list that a deep analysis has installed, a record whose
\* metadata lists a mod id that the metadata of a record analysed before it
\* lists too carries a conflict record for that mod id: of type version, with
\* a resolution, when the two versions differ, and of type duplicate when
\* they compare equal
ConflictRecordForSharedModId ==
    AnalysisFinished =>
        \A i, j \in 1..Len(allFiles) :
            (i < j /\ allFiles[i].metadata.has /\ allFiles[j].metadata.has)
            => \A id \in ListedIds(allFiles[i]) \cap ListedIds(allFiles[j]) :
                  \E c \in 1..Len(allFiles[j].conflicts) :
                      /\ allFiles[j].conflicts[c].modId = id
                      /\ IF compare(ListedVersion(allFiles[j], id),
                                    ListedVersion(allFiles[i], id)) # 0
                         THEN /\ allFiles[j].conflicts[c].type = "version"
                              /\ allFiles[j].conflicts[c].resolution
                                     \in {"keep_this", "keep_other"}
                         ELSE allFiles[j].conflicts[c].type = "duplicate"


\* the presence index that validate builds from the registry
PresenceIndex == presentMods(EmptyMap, modRegistry, 1)

\* the mod entries of the registry that declare the id: in metadata.mods, or
\* in metadata.mods and metadata.bundled
VersionsIn(entries, id) ==
    {entries[m].version : m \in {n \in 1..Len(entries) : entries[n].id = id}}

DeclaredVersions(id, withBundled) ==
    UNION {VersionsIn(modRegistry[i].val.metadata.mods, id)
              \cup IF withBundled THEN VersionsIn(modRegistry[i].val.metadata.bundled, id)
                   ELSE {} :
           i \in 1..Len(modRegistry)}

\* the mod ids that a file of the registry declares in metadata.mods
RealIds ==
    UNION {{modRegistry[i].val.metadata.mods[m].id :
               m \in 1..Len(modRegistry[i].val.metadata.mods)} :
           i \in 1..Len(modRegistry)}

\* C32 as stated: a mod id that a file declares in metadata.mods is indexed
\* with the version of an entry of metadata.mods
IndexedWithVersionOfRealEntry ==
    last.op = "validated" =>
        \A id \in RealIds :
            MapHas(PresenceIndex, id) /\ PresenceIndex[id] \in DeclaredVersions(id, FALSE)

\* C32, amended: a mod id that a file declares in metadata.mods is indexed
\* with the version of a mod entry that declares it, in metadata.mods or in
\* metadata.bundled, and so never with the version of a mod that only
\* provides it, in whatever order the files were analysed
IndexedWithVersionOfAnEntry ==
    last.op = "validated" =>
        \A id \in RealIds :
            MapHas(PresenceIndex, id) /\ PresenceIndex[id] \in DeclaredVersions(id, TRUE)

\* the validator has run on a registry in which the file that provides
\* corelib was analysed before the file that declares it
RealAfterProvided ==
    /\ last.op = "validated"
    /\ \E i, j \in 1..Len(modRegistry) :
          /\ i < j
          /\ S_corelib \in {modRegistry[i].val.metadata.mods[1].provides[k] :
                                k \in 1..Len(modRegistry[i].val.metadata.mods[1].provides)}
          /\ modRegistry[j].val.metadata.mods[1].id = S_corelib
          /\ PresenceIndex[S_corelib] = modRegistry[j].val.metadata.mods[1].version
          /\ PresenceIndex[S_corelib] # modRegistry[i].val.metadata.mods[1].version


\* the url that the fetch of slot j of activation a is for
FetchedUrl(a, j) == analyses[a].slots[j].rec.downloads[1]

\* C33: no url is being fetched twice: the fetches that are outstanding are
\* for urls that differ from each other, and none of them is for a url that a
\* fetch has settled for before (extract stores every url it has fetched)
EachUrlFetchedOnce ==
    \A a, b \in 1..Len(analyses) :
        \A j \in Outstanding(analyses[a]) :
            /\ ~MapHas(cache, FetchedUrl(a, j))
            /\ \A k \in Outstanding(analyses[b]) :
                  FetchedUrl(a, j) = FetchedUrl(b, k) => (a = b /\ j = k)


\* C34: when every fetch settles in the end, a deep analysis that has set
\* the latch analysisInProgress clears it in the end, whether its files were
\* read, failed to be read, or made the analysis throw
LatchEventuallyCleared == analysisInProgress ~> ~analysisInProgress

\* an analysis that waited for its fetches has been abandoned through the
\* catch, or has ended with a file whose fetch failed, and the latch is clear
LatchClearedAfterFailure ==
    /\ ~analysisInProgress
    /\ \/ /\ last.op = "deepFailed"
          /\ Len(modRegistry) >= batchSize
       \/ /\ last.op = "deepDone"
          /\ \E k \in 1..Len(allFiles) :
                allFiles[k].metadata = Fallback(allFiles[k].fileName)


\* C35: after a priority pass a record of a listed pack carries a conflict
\* reason, and a kept source, exactly if the pass has excluded it
ReasonIffExcluded ==
    last.pass =>
        \A i \in 1..Len(allFiles) :
            Listed(allFiles[i]) =>
                /\ (allFiles[i].conflictReason # NoReason)
                       <=> (~allFiles[i].enabled /\ allFiles[i].isDuplicate)
                /\ (allFiles[i].keptSource # NoSource)
                       <=> (~allFiles[i].enabled /\ allFiles[i].isDuplicate)

=============================================================================
